---------------------------- MODULE Spec2Model ----------------------------
(***************************************************************************)
(* A model of src/data/clean_and_merge_data.py: the headline cleaner, the  *)
(* date normalizer, the two input validators and clean_and_merge_data,     *)
(* which joins cleaned, per-date aggregated headlines onto a price table.  *)
(*                                                                         *)
(* Python values are tagged records (field t is the dynamic type):         *)
(*   None / NaN / NaT      [t |-> "null"]                                  *)
(*   int                   [t |-> "int",   v |-> tenths]                   *)
(*   float                 [t |-> "float", v |-> tenths]                   *)
(*   str                   [t |-> "str",   s |-> <<code points>>]          *)
(*   date text             [t |-> "datestr", day, hour, tz]                *)
(*   pd.Timestamp          [t |-> "ts", day, hour, tz]                     *)
(*   list                  [t |-> "list",  items |-> <<...>>]              *)
(* Numbers are fixed point with one decimal digit: v is the value times    *)
(* ten, so 1000 is v = 10000 and 1000.5 is v = 10005.                      *)
(* A DataFrame is [t |-> "df", columns |-> <<names>>, rows |-> <<row>>],   *)
(* each row a function from the column names to cells.  DataFrames live in *)
(* a heap and are held by reference, so that in-place column assignment    *)
(* through one name is seen through every alias of the same object.        *)
(***************************************************************************)
EXTENDS Integers, Sequences, FiniteSets, TLC

VARIABLES
    heap,        \* object id -> DataFrame value: every table that exists
    price_data,  \* the caller's price argument: a reference, None or a non-table
    news_data,   \* the caller's news argument
    orig,        \* the caller's tables as they were when the calls began
    frame        \* call id -> the locals of that call of clean_and_merge_data

vars == <<heap, price_data, news_data, orig, frame>>

(***************************************************************************)
(* Bounds of the model.                                                    *)
(***************************************************************************)
MaxPriceRows == 2
MaxNewsRows == 2

(***************************************************************************)
(* Python values.                                                          *)
(***************************************************************************)
Null == [t |-> "null"]
PyInt(tenths) == [t |-> "int", v |-> tenths]
PyFloat(tenths) == [t |-> "float", v |-> tenths]
PyStr(chars) == [t |-> "str", s |-> chars]
PyList(xs) == [t |-> "list", items |-> xs]
\* any other Python object, such as True: pd.isna of it is False and str() of
\* it is chars
PyObject(chars) == [t |-> "object", str |-> chars]
\* a text that pd.to_datetime parses: calendar day (days since the epoch),
\* hour of the day, and tz = <<>> (zone-naive) or <<offset in hours>>
DateText(day, hour, tz) == [t |-> "datestr", day |-> day, hour |-> hour, tz |-> tz]
\* a text that pd.to_datetime cannot parse, such as 'invalid-date'
BadText == [t |-> "badstr"]
Timestamp(day, hour, tz) == [t |-> "ts", day |-> day, hour |-> hour, tz |-> tz]
\* the text 'NaT', which pd.to_datetime reads as NaT whatever errors is
NaTText == [t |-> "nattext"]
\* a Python object that is not a DataFrame, such as the list [1, 2, 3]
NotATable == [t |-> "pylist"]
Ref(id) == [t |-> "ref", id |-> id]

\* pd.isna on a scalar: None, NaN and NaT
IsNa(x) == x.t = "null"

IsNumber(x) == x.t \in {"int", "float"}

(***************************************************************************)
(* Sequence helpers.                                                       *)
(***************************************************************************)
Range(s) == {s[i] : i \in DOMAIN s}

RECURSIVE SelectIdx(_, _, _)
\* the elements of s whose index satisfies keep, in order (boolean-mask indexing)
SelectIdx(s, keep, i) ==
    IF i > Len(s) THEN <<>>
    ELSE (IF keep[i] THEN <<s[i]>> ELSE <<>>) \o SelectIdx(s, keep, i + 1)

Mask(s, keep) == SelectIdx(s, keep, 1)

Contains(s, x) == \E i \in DOMAIN s : s[i] = x

(***************************************************************************)
(* DataFrames.                                                             *)
(***************************************************************************)
DataFrame(columns, rows) == [t |-> "df", columns |-> columns, rows |-> rows]

\* pd.DataFrame(): no columns, no rows
EmptyFrame == DataFrame(<<>>, <<>>)

IsDataFrame(x) == x.t = "df"

\* DataFrame.empty: some axis has length 0
DfEmpty(df) == Len(df.rows) = 0 \/ Len(df.columns) = 0

HasColumn(df, c) == Contains(df.columns, c)

\* df[c] as the sequence of its cells
Column(df, c) == [i \in DOMAIN df.rows |-> df.rows[i][c]]

\* df[c] = cells: replaces the column, or appends it as the last column
SetColumn(df, c, cells) ==
    DataFrame(
        IF HasColumn(df, c) THEN df.columns ELSE Append(df.columns, c),
        [i \in DOMAIN df.rows |->
            [k \in Range(df.columns) \cup {c} |->
                IF k = c THEN cells[i] ELSE df.rows[i][k]]])

\* df[mask]: the rows whose mask entry is true, in order
FilterRows(df, keep) == DataFrame(df.columns, Mask(df.rows, keep))

\* df[cols]: the named columns in the given order
\* SelectColumns keeping whatever columns the table has
KeepEveryColumn(df, cols) == df

SelectColumns(df, cols) ==
    DataFrame(cols, [i \in DOMAIN df.rows |-> [k \in Range(cols) |-> df.rows[i][k]]])

(***************************************************************************)
(* normalize_date.  The result is [raised, value].                         *)
(***************************************************************************)
\* pd.to_datetime(date_value, errors=errors) on a scalar: [failed, value]
to_datetime(date_value, errors) ==
    CASE date_value.t = "ts" -> [failed |-> FALSE, value |-> date_value]
      [] date_value.t = "datestr" ->
            [failed |-> FALSE,
             value |-> Timestamp(date_value.day, date_value.hour, date_value.tz)]
      [] date_value.t \in {"int", "float"} ->
            \* a number is nanoseconds since the epoch: day 0 for every small one
            [failed |-> FALSE, value |-> Timestamp(0, 0, <<>>)]
      [] date_value.t = "nattext" -> [failed |-> FALSE, value |-> Null]
      [] OTHER ->
            IF errors = "coerce" THEN [failed |-> FALSE, value |-> Null]
            ELSE [failed |-> TRUE, value |-> Null]

\* tz_localize_none as tz_convert(None) would be: the wall clock of UTC
TzConvertUtc(ts) ==
    LET h == ts.hour - ts.tz[1]
    IN Timestamp(ts.day + (IF h >= 24 THEN 1 ELSE IF h < 0 THEN -1 ELSE 0),
                 h % 24, <<>>)

\* Timestamp.tz_localize(None): the offset is dropped, the wall clock kept
tz_localize_none(ts) == Timestamp(ts.day, ts.hour, <<>>)

\* Timestamp.normalize(): the time of day is set to midnight
ts_normalize(ts) == Timestamp(ts.day, 0, ts.tz)

\* normalize_date with the except branch re-raising whatever errors is
NormalizeDateAlwaysRaising(date_value, errors) ==
    IF IsNa(date_value) THEN [raised |-> FALSE, value |-> Null]
    ELSE IF date_value.t = "nattext" THEN [raised |-> FALSE, value |-> Null]
    ELSE IF date_value.t \notin {"ts", "datestr", "int", "float"}
    THEN [raised |-> TRUE, value |-> Null]
    ELSE [raised |-> FALSE,
          value |-> Timestamp(to_datetime(date_value, errors).value.day, 0, <<>>)]

normalize_date(date_value, errors) ==
    IF IsNa(date_value) THEN [raised |-> FALSE, value |-> Null]
    ELSE LET parsed == to_datetime(date_value, errors) IN
         IF parsed.failed
         THEN \* the except branch: re-raise as ValueError under 'raise', else NaT
              [raised |-> errors = "raise", value |-> Null]
         ELSE IF IsNa(parsed.value) THEN [raised |-> FALSE, value |-> Null]
         ELSE LET ts == IF parsed.value.tz # <<>>
                        THEN tz_localize_none(parsed.value) ELSE parsed.value
              IN [raised |-> FALSE, value |-> ts_normalize(ts)]

(***************************************************************************)
(* The input validators.  The result is [is_valid, error_msg].             *)
(***************************************************************************)
PriceRequiredColumns == <<"date", "ticker", "open", "high", "low", "close", "volume">>
NewsRequiredColumns == <<"date", "headline">>

MissingColumns(df, required) ==
    SelectSeq(required, LAMBDA c : ~HasColumn(df, c))

\* df[col].isna().any()
AnyNa(df, col) == \E i \in DOMAIN df.rows : IsNa(df.rows[i][col])

\* validate_price_dataframe with the null check over every required column
ValidatePriceAllColumnsNotNull(df) ==
    IF df.t = "null" THEN [is_valid |-> FALSE, error_msg |-> "Price DataFrame is None"]
    ELSE IF ~IsDataFrame(df) THEN [is_valid |-> FALSE, error_msg |-> "Expected DataFrame"]
    ELSE IF DfEmpty(df) THEN [is_valid |-> TRUE, error_msg |-> "None"]
    ELSE IF MissingColumns(df, PriceRequiredColumns) # <<>>
         THEN [is_valid |-> FALSE, error_msg |-> "Missing required columns"]
    ELSE IF \E col \in Range(PriceRequiredColumns) : AnyNa(df, col)
         THEN [is_valid |-> FALSE, error_msg |-> "NaN values found in column"]
    ELSE [is_valid |-> TRUE, error_msg |-> "None"]

validate_price_dataframe(df) ==
    IF df.t = "null" THEN [is_valid |-> FALSE, error_msg |-> "Price DataFrame is None"]
    ELSE IF ~IsDataFrame(df) THEN [is_valid |-> FALSE, error_msg |-> "Expected DataFrame"]
    ELSE IF DfEmpty(df) THEN [is_valid |-> TRUE, error_msg |-> "None"]
    ELSE IF MissingColumns(df, PriceRequiredColumns) # <<>>
         THEN [is_valid |-> FALSE, error_msg |-> "Missing required columns"]
    ELSE IF \E col \in {"date", "ticker"} : AnyNa(df, col)
         THEN [is_valid |-> FALSE, error_msg |-> "NaN values found in column"]
    ELSE [is_valid |-> TRUE, error_msg |-> "None"]

validate_news_dataframe(df) ==
    IF df.t = "null" THEN [is_valid |-> FALSE, error_msg |-> "News DataFrame is None"]
    ELSE IF ~IsDataFrame(df) THEN [is_valid |-> FALSE, error_msg |-> "Expected DataFrame"]
    ELSE IF DfEmpty(df) THEN [is_valid |-> TRUE, error_msg |-> "None"]
    ELSE IF MissingColumns(df, NewsRequiredColumns) # <<>>
         THEN [is_valid |-> FALSE, error_msg |-> "Missing required columns"]
    ELSE [is_valid |-> TRUE, error_msg |-> "None"]

(***************************************************************************)
(* Text.  A str is a sequence of Unicode code points.                      *)
(***************************************************************************)
IsDigit(c) == c \in 48..57
IsAsciiLetter(c) == c \in 65..90 \/ c \in 97..122
IsHexDigit(c) == IsDigit(c) \/ c \in 65..70 \/ c \in 97..102

\* \w of a str pattern: the alphanumerics and the underscore.  Beyond ASCII
\* the Latin-1 letters are classified; other code points count as non-word.
IsWordChar(c) ==
    \/ IsDigit(c) \/ IsAsciiLetter(c) \/ c = 95
    \/ c \in {170, 181, 186}
    \/ (c \in 192..255 /\ c \notin {215, 247})

\* \s of a str pattern
IsSpace(c) ==
    \/ c \in 9..13 \/ c \in 28..32 \/ c \in {133, 160, 5760}
    \/ c \in 8192..8202 \/ c \in {8232, 8233, 8239, 8287, 12288}

\* the least index j >= i of s with s[j] in set, or Len(s) + 1
RECURSIVE FirstIn(_, _, _)
FirstIn(s, i, set) ==
    IF i > Len(s) \/ s[i] \in set THEN i ELSE FirstIn(s, i + 1, set)

\* the least index j >= i of s with s[j] a white space, or Len(s) + 1
RECURSIVE FirstSpace(_, _)
FirstSpace(s, i) ==
    IF i > Len(s) \/ IsSpace(s[i]) THEN i ELSE FirstSpace(s, i + 1)

\* s[i..j] = w
MatchesAt(s, i, w) ==
    /\ i + Len(w) - 1 <= Len(s)
    /\ \A k \in DOMAIN w : s[i + k - 1] = w[k]

ToLowerChar(c) == IF c \in 65..90 \/ c \in 192..222 \ {215} THEN c + 32 ELSE c

\* str.lower()
Lower(s) == [i \in DOMAIN s |-> ToLowerChar(s[i])]

\* s[i..j] matches w ignoring case
MatchesAtIgnoreCase(s, i, w) ==
    /\ i + Len(w) - 1 <= Len(s)
    /\ \A k \in DOMAIN w : ToLowerChar(s[i + k - 1]) = w[k]

(***************************************************************************)
(* HTML_TAG_PATTERN = <[^>]+> , substituted by one space.                  *)
(***************************************************************************)
\* the index of the '>' closing a tag opened at i, or 0 when none matches
TagEnd(s, i) ==
    LET j == FirstIn(s, i + 1, {62}) IN
    IF s[i] = 60 /\ j <= Len(s) /\ j >= i + 2 THEN j ELSE 0

RECURSIVE SubTags(_, _)
SubTags(s, i) ==
    IF i > Len(s) THEN <<>>
    ELSE IF TagEnd(s, i) # 0 THEN <<32>> \o SubTags(s, TagEnd(s, i) + 1)
    ELSE <<s[i]>> \o SubTags(s, i + 1)

HTML_TAG_PATTERN_sub(s) == SubTags(s, 1)

(***************************************************************************)
(* html.unescape.  Numeric references are decimal; the named references    *)
(* known are amp, lt, gt, quot and nbsp, each with or without its ';'.     *)
(***************************************************************************)
NamedEntities ==
    {<< <<97, 109, 112>>, 38 >>,        \* amp  -> &
     << <<108, 116>>, 60 >>,            \* lt   -> <
     << <<103, 116>>, 62 >>,            \* gt   -> >
     << <<113, 117, 111, 116>>, 34 >>,  \* quot -> "
     << <<110, 98, 115, 112>>, 160 >>}  \* nbsp -> U+00A0

\* the end of the run of digits starting at i (i - 1 when there is none)
RECURSIVE DigitsEnd(_, _)
DigitsEnd(s, i) ==
    IF i <= Len(s) /\ IsDigit(s[i]) THEN DigitsEnd(s, i + 1) ELSE i - 1

RECURSIVE DecimalValue(_, _, _)
DecimalValue(s, i, j) ==
    IF j < i THEN 0 ELSE 10 * DecimalValue(s, i, j - 1) + (s[j] - 48)

\* what a numeric reference to code point num is replaced by
NumericReplacement(num) ==
    IF num = 0 \/ num \in 55296..57343 \/ num > 1114111 THEN <<65533>>
    ELSE IF num \in 1..8 \/ num \in 14..31 \/ num \in {11, 127} THEN <<>>
    ELSE <<num>>

\* the end of the run of name characters [^\t\n\f <&#;]{1,32} starting at i
RECURSIVE NameEnd(_, _, _)
NameEnd(s, i, n) ==
    IF i <= Len(s) /\ n < 32 /\ s[i] \notin {9, 10, 12, 32, 60, 38, 35, 59}
    THEN NameEnd(s, i + 1, n + 1) ELSE i - 1

\* the longest known name that s[i..j] starts with, as {<<name, char>>} or {}
LongestEntity(s, i, j) ==
    LET fits == {e \in NamedEntities : Len(e[1]) <= j - i + 1 /\ MatchesAt(s, i, e[1])}
    IN {e \in fits : \A f \in fits : Len(f[1]) <= Len(e[1])}

\* the reference starting at the '&' at index i: [end, text], end = 0 if none
CharRef(s, i) ==
    IF i + 1 > Len(s) THEN [end |-> 0, text |-> <<>>]
    ELSE IF s[i + 1] = 35
    THEN LET j == DigitsEnd(s, i + 2)
             e == IF j + 1 <= Len(s) /\ s[j + 1] = 59 THEN j + 1 ELSE j
         IN IF j < i + 2 THEN [end |-> 0, text |-> <<>>]
            ELSE [end |-> e, text |-> NumericReplacement(DecimalValue(s, i + 2, j))]
    ELSE LET j == NameEnd(s, i + 1, 0)
             e == IF j + 1 <= Len(s) /\ s[j + 1] = 59 THEN j + 1 ELSE j
             known == LongestEntity(s, i + 1, j)
         IN IF j < i + 1 \/ known = {} THEN [end |-> 0, text |-> <<>>]
            ELSE LET ent == CHOOSE x \in known : TRUE
                     stop == i + Len(ent[1])
                 IN \* the whole name (with its ';' if any), or a name prefix
                    \* followed by the rest of the run, kept as it is
                    IF stop = j THEN [end |-> e, text |-> <<ent[2]>>]
                    ELSE [end |-> stop, text |-> <<ent[2]>>]

RECURSIVE SubCharRefs(_, _)
SubCharRefs(s, i) ==
    IF i > Len(s) THEN <<>>
    ELSE IF s[i] = 38 /\ CharRef(s, i).end # 0
         THEN CharRef(s, i).text \o SubCharRefs(s, CharRef(s, i).end + 1)
    ELSE <<s[i]>> \o SubCharRefs(s, i + 1)

html_unescape(s) == SubCharRefs(s, 1)

(***************************************************************************)
(* URL_PATTERN (re.IGNORECASE), substituted by the empty string:           *)
(*   https?://(?:[-\w.]|(?:%[\da-fA-F]{2}))+[^\s]*                         *)
(*   | www\.(?:[-\w.]|(?:%[\da-fA-F]{2}))+[^\s]*                           *)
(***************************************************************************)
\* the length of the scheme or www. prefix matched at i, or 0
UrlPrefixLen(s, i) ==
    IF MatchesAtIgnoreCase(s, i, <<104, 116, 116, 112, 115, 58, 47, 47>>) THEN 8
    ELSE IF MatchesAtIgnoreCase(s, i, <<104, 116, 116, 112, 58, 47, 47>>) THEN 7
    ELSE IF MatchesAtIgnoreCase(s, i, <<119, 119, 119, 46>>) THEN 4
    ELSE 0

\* one round of (?:[-\w.]|(?:%[\da-fA-F]{2})) matches at k
UrlHostAt(s, k) ==
    /\ k <= Len(s)
    /\ \/ s[k] \in {45, 46} \/ IsWordChar(s[k])
       \/ (s[k] = 37 /\ k + 2 <= Len(s) /\ IsHexDigit(s[k + 1]) /\ IsHexDigit(s[k + 2]))

\* the last index of the URL matched at i, or 0 when none matches there
UrlEnd(s, i) ==
    LET p == UrlPrefixLen(s, i) IN
    IF p # 0 /\ UrlHostAt(s, i + p) THEN FirstSpace(s, i + p) - 1 ELSE 0

RECURSIVE SubUrls(_, _)
SubUrls(s, i) ==
    IF i > Len(s) THEN <<>>
    ELSE IF UrlEnd(s, i) # 0 THEN SubUrls(s, UrlEnd(s, i) + 1)
    ELSE <<s[i]>> \o SubUrls(s, i + 1)

URL_PATTERN_sub(s) == SubUrls(s, 1)

(***************************************************************************)
(* TICKER_PATTERN = \$[A-Za-z]{1,5}\b , substituted by the empty string.   *)
(***************************************************************************)
\* the end of the run of ASCII letters starting at i (i - 1 when none)
RECURSIVE LettersEnd(_, _)
LettersEnd(s, i) ==
    IF i <= Len(s) /\ IsAsciiLetter(s[i]) THEN LettersEnd(s, i + 1) ELSE i - 1

\* TickerEnd for a pattern that takes digits and '_' as well as letters
RECURSIVE WordCharsEnd(_, _)
WordCharsEnd(s, i) ==
    IF i <= Len(s) /\ IsWordChar(s[i]) THEN WordCharsEnd(s, i + 1) ELSE i - 1

TickerEndAnyWord(s, i) ==
    LET j == WordCharsEnd(s, i + 1) IN
    IF s[i] = 36 /\ j >= i + 1 /\ j - i <= 5 THEN j ELSE 0

\* the last index of the ticker matched at i, or 0: a '$', one to five
\* letters, and a word boundary right after them
TickerEnd(s, i) ==
    LET j == LettersEnd(s, i + 1) IN
    IF /\ s[i] = 36
       /\ j >= i + 1
       /\ j - i <= 5
       /\ (j = Len(s) \/ ~IsWordChar(s[j + 1]))
    THEN j ELSE 0

RECURSIVE SubTickers(_, _)
SubTickers(s, i) ==
    IF i > Len(s) THEN <<>>
    ELSE IF TickerEnd(s, i) # 0 THEN SubTickers(s, TickerEnd(s, i) + 1)
    ELSE <<s[i]>> \o SubTickers(s, i + 1)

TICKER_PATTERN_sub(s) == SubTickers(s, 1)

(***************************************************************************)
(* _is_emoji and the emoji/special character stage.                        *)
(***************************************************************************)
emoji_ranges ==
    <<
     <<128512, 128591>>,  \* 0x1F600..0x1F64F Emoticons
     <<127744, 128511>>,  \* 0x1F300..0x1F5FF Misc Symbols and Pictographs
     <<128640, 128767>>,  \* 0x1F680..0x1F6FF Transport and Map
     <<127456, 127487>>,  \* 0x1F1E0..0x1F1FF Flags
     <<9728, 9983>>,  \* 0x2600..0x26FF Misc symbols
     <<9984, 10175>>,  \* 0x2700..0x27BF Dingbats
     <<65024, 65039>>,  \* 0xFE00..0xFE0F Variation Selectors
     <<129280, 129535>>,  \* 0x1F900..0x1F9FF Supplemental Symbols and Pictographs
     <<129536, 129647>>,  \* 0x1FA00..0x1FA6F Chess Symbols
     <<129648, 129791>>,  \* 0x1FA70..0x1FAFF Symbols and Pictographs Extended-A
     <<8986, 8987>>,  \* 0x231A..0x231B Watch, Hourglass
     <<9193, 9203>>,  \* 0x23E9..0x23F3 Various symbols
     <<9208, 9210>>,  \* 0x23F8..0x23FA Various symbols
     <<9642, 9643>>,  \* 0x25AA..0x25AB Squares
     <<9654, 9654>>,  \* 0x25B6..0x25B6 Play button
     <<9664, 9664>>,  \* 0x25C0..0x25C0 Reverse button
     <<9723, 9726>>,  \* 0x25FB..0x25FE Squares
     <<9748, 9749>>,  \* 0x2614..0x2615 Umbrella, Hot beverage
     <<9800, 9811>>,  \* 0x2648..0x2653 Zodiac
     <<9855, 9855>>,  \* 0x267F..0x267F Wheelchair
     <<9875, 9875>>,  \* 0x2693..0x2693 Anchor
     <<9889, 9889>>,  \* 0x26A1..0x26A1 High voltage
     <<9898, 9899>>,  \* 0x26AA..0x26AB Circles
     <<9917, 9918>>,  \* 0x26BD..0x26BE Sports
     <<9924, 9925>>,  \* 0x26C4..0x26C5 Snowman, Sun
     <<9934, 9934>>,  \* 0x26CE..0x26CE Ophiuchus
     <<9940, 9940>>,  \* 0x26D4..0x26D4 No entry
     <<9962, 9962>>,  \* 0x26EA..0x26EA Church
     <<9970, 9971>>,  \* 0x26F2..0x26F3 Fountain, Golf
     <<9973, 9973>>,  \* 0x26F5..0x26F5 Sailboat
     <<9978, 9978>>,  \* 0x26FA..0x26FA Tent
     <<9981, 9981>>,  \* 0x26FD..0x26FD Fuel pump
     <<9986, 9986>>,  \* 0x2702..0x2702 Scissors
     <<9989, 9989>>,  \* 0x2705..0x2705 Check mark
     <<9992, 9997>>,  \* 0x2708..0x270D Various
     <<9999, 9999>>,  \* 0x270F..0x270F Pencil
     <<10002, 10002>>,  \* 0x2712..0x2712 Black nib
     <<10004, 10004>>,  \* 0x2714..0x2714 Check mark
     <<10006, 10006>>,  \* 0x2716..0x2716 X mark
     <<10013, 10013>>,  \* 0x271D..0x271D Latin cross
     <<10017, 10017>>,  \* 0x2721..0x2721 Star of David
     <<10024, 10024>>,  \* 0x2728..0x2728 Sparkles
     <<10035, 10036>>,  \* 0x2733..0x2734 Various
     <<10052, 10052>>,  \* 0x2744..0x2744 Snowflake
     <<10055, 10055>>,  \* 0x2747..0x2747 Sparkle
     <<10060, 10060>>,  \* 0x274C..0x274C Cross mark
     <<10062, 10062>>,  \* 0x274E..0x274E Cross mark
     <<10067, 10069>>,  \* 0x2753..0x2755 Question marks
     <<10071, 10071>>,  \* 0x2757..0x2757 Exclamation
     <<10083, 10084>>,  \* 0x2763..0x2764 Heart
     <<10133, 10135>>,  \* 0x2795..0x2797 Math symbols
     <<10145, 10145>>,  \* 0x27A1..0x27A1 Arrow
     <<10160, 10160>>,  \* 0x27B0..0x27B0 Curly loop
     <<10175, 10175>>,  \* 0x27BF..0x27BF Double curly loop
     <<10548, 10549>>,  \* 0x2934..0x2935 Arrows
     <<11013, 11015>>,  \* 0x2B05..0x2B07 Arrows
     <<11035, 11036>>,  \* 0x2B1B..0x2B1C Squares
     <<11088, 11088>>,  \* 0x2B50..0x2B50 Star
     <<11093, 11093>>,  \* 0x2B55..0x2B55 Circle
     <<12336, 12336>>,  \* 0x3030..0x3030 Wavy dash
     <<12349, 12349>>,  \* 0x303D..0x303D Part alternation mark
     <<12951, 12951>>,  \* 0x3297..0x3297 Circled Ideograph Congratulation
     <<12953, 12953>>   \* 0x3299..0x3299 Circled Ideograph Secret
    >>

\* char is a str; only a str of length one can be an emoji
\* _is_emoji with the upper end of each interval left out
IsEmojiBelowEnd(char) ==
    IF Len(char) # 1 THEN FALSE
    ELSE \E k \in DOMAIN emoji_ranges :
            emoji_ranges[k][1] <= char[1] /\ char[1] < emoji_ranges[k][2]

_is_emoji(char) ==
    IF Len(char) # 1 THEN FALSE
    ELSE LET code_point == char[1] IN
         \E k \in DOMAIN emoji_ranges :
            emoji_ranges[k][1] <= code_point /\ code_point <= emoji_ranges[k][2]

\* unicodedata.normalize('NFKD', .) of one code point: the compatibility
\* decompositions of the code points the model's texts use
NFKDChar(c) ==
    CASE c = 160 -> <<32>>            \* no-break space -> space
      [] c = 233 -> <<101, 769>>      \* e acute -> e, combining acute
      [] c = 8482 -> <<84, 77>>       \* trade mark sign -> TM
      [] c = 64257 -> <<102, 105>>    \* ligature fi -> fi
      [] c = 65284 -> <<36>>          \* fullwidth dollar sign -> $
      [] c = 65308 -> <<60>>          \* fullwidth less-than sign -> <
      [] c = 65310 -> <<62>>          \* fullwidth greater-than sign -> >
      [] OTHER -> <<c>>

RECURSIVE NFKD(_)
NFKD(s) == IF s = <<>> THEN <<>> ELSE NFKDChar(Head(s)) \o NFKD(Tail(s))

RemoveEmojis(s) == SelectSeq(s, LAMBDA c : ~_is_emoji(<<c>>))

\* the characters SPECIAL_CHAR_PATTERN keeps: \w, \s and
\* . , ! ? ' " - : ; ( ) [ ] { } / \ @ # % & * + = < > | ~ `
SpecialCharAllowed(c) ==
    \/ IsWordChar(c) \/ IsSpace(c)
    \/ c \in {46, 44, 33, 63, 39, 34, 45, 58, 59, 40, 41, 91, 93, 123, 125,
              47, 92, 64, 35, 37, 38, 42, 43, 61, 60, 62, 124, 126, 96}

SPECIAL_CHAR_PATTERN_sub(s) == SelectSeq(s, SpecialCharAllowed)

(***************************************************************************)
(* Whitespace.                                                             *)
(***************************************************************************)
\* WHITESPACE_PATTERN = \s+ , substituted by one space
RECURSIVE SubSpaces(_, _)
SubSpaces(s, i) ==
    IF i > Len(s) THEN <<>>
    ELSE IF IsSpace(s[i])
         THEN (IF i > 1 /\ IsSpace(s[i - 1]) THEN <<>> ELSE <<32>>) \o SubSpaces(s, i + 1)
    ELSE <<s[i]>> \o SubSpaces(s, i + 1)

WHITESPACE_PATTERN_sub(s) == SubSpaces(s, 1)

RECURSIVE LStrip(_)
LStrip(s) == IF s # <<>> /\ IsSpace(Head(s)) THEN LStrip(Tail(s)) ELSE s

RECURSIVE RStrip(_)
RStrip(s) ==
    IF s # <<>> /\ IsSpace(s[Len(s)]) THEN RStrip(SubSeq(s, 1, Len(s) - 1)) ELSE s

\* str.strip()
Strip(s) == RStrip(LStrip(s))

(***************************************************************************)
(* str() of a number.                                                      *)
(***************************************************************************)
RECURSIVE NatDigits(_)
NatDigits(n) == IF n < 10 THEN <<48 + n>> ELSE NatDigits(n \div 10) \o <<48 + (n % 10)>>

IntDigits(n) == IF n < 0 THEN <<45>> \o NatDigits(-n) ELSE NatDigits(n)

\* str(x) of an int or a float held in tenths
NumberStr(x) ==
    LET a == IF x.v < 0 THEN -x.v ELSE x.v
        sign == IF x.v < 0 THEN <<45>> ELSE <<>>
    IN IF x.t = "int" THEN sign \o NatDigits(a \div 10)
       ELSE sign \o NatDigits(a \div 10) \o <<46>> \o NatDigits(a % 10)

\* repr(x) of an element of a list: None, a str of plain characters between
\* single quotes, a number
PyRepr(x) ==
    IF x.t = "null" THEN <<78, 111, 110, 101>>
    ELSE IF x.t = "str" THEN <<39>> \o x.s \o <<39>>
    ELSE IF x.t = "object" THEN x.str
    ELSE NumberStr(x)

\* ', '.join of the reprs
RECURSIVE JoinReprs(_)
JoinReprs(xs) ==
    IF xs = <<>> THEN <<>>
    ELSE IF Len(xs) = 1 THEN PyRepr(xs[1])
    ELSE PyRepr(xs[1]) \o <<44, 32>> \o JoinReprs(Tail(xs))

\* str(x) of a value that is not a str
PyStrOf(x) ==
    IF x.t = "list" THEN <<91>> \o JoinReprs(x.items) \o <<93>>
    ELSE IF x.t = "object" THEN x.str
    ELSE NumberStr(x)

\* lines 92-100: text is None, or `if pd.isna(text)` is taken.  pd.isna of a
\* list is an array: its truth value is that of its element when it has
\* exactly one, and asking for it raises (caught at line 99) or gives False
\* otherwise
TreatedAsMissing(text) ==
    IF text.t = "list" THEN Len(text.items) = 1 /\ IsNa(text.items[1])
    ELSE IsNa(text)

(***************************************************************************)
(* clean_headline.                                                         *)
(***************************************************************************)
DefaultCleanOptions ==
    [remove_urls |-> TRUE, remove_html_entities |-> TRUE, remove_emojis |-> TRUE,
     remove_special_chars |-> TRUE, normalize_whitespace |-> TRUE,
     strip_whitespace |-> TRUE, remove_tickers |-> TRUE, lowercase |-> FALSE,
     remove_html_tags |-> TRUE]

\* the eight stages, applied to a non-blank str
\* Stage1 leaving the tags in
Stage1Skipped(s, o) == s

Stage1(s, o) == IF o.remove_html_tags THEN HTML_TAG_PATTERN_sub(s) ELSE s
Stage2(s, o) == IF o.remove_html_entities THEN html_unescape(s) ELSE s
Stage3(s, o) == IF o.remove_urls THEN URL_PATTERN_sub(s) ELSE s
Stage4(s, o) == IF o.remove_tickers THEN TICKER_PATTERN_sub(s) ELSE s
Stage5Normalize(s, o) ==
    IF o.remove_emojis \/ o.remove_special_chars THEN NFKD(s) ELSE s
Stage5Emojis(s, o) == IF o.remove_emojis THEN RemoveEmojis(s) ELSE s
Stage5Special(s, o) ==
    IF o.remove_special_chars THEN SPECIAL_CHAR_PATTERN_sub(s) ELSE s
Stage6(s, o) == IF o.normalize_whitespace THEN WHITESPACE_PATTERN_sub(s) ELSE s
\* Stage7 trimming whatever the flag says
Stage7Always(s, o) == Strip(s)

Stage7(s, o) == IF o.strip_whitespace THEN Strip(s) ELSE s
Stage8(s, o) == IF o.lowercase THEN Lower(s) ELSE s

\* CleanStages with the whitespace collapsed before the special characters
\* are removed
CleanStagesCollapseFirst(text, o) ==
    Stage8(Stage7(
        Stage5Special(Stage5Emojis(Stage5Normalize(Stage6(
            Stage4(Stage3(Stage2(Stage1(text, o), o), o), o), o), o), o), o), o), o)

\* CleanStages with the entities unescaped after the URLs and tickers are
\* removed
CleanStagesUnescapeLate(text, o) ==
    Stage8(Stage7(Stage6(
        Stage5Special(Stage5Emojis(Stage5Normalize(
            Stage2(Stage4(Stage3(Stage1(text, o), o), o), o), o), o), o), o), o), o)

CleanStages(text, o) ==
    Stage8(Stage7(Stage6(
        Stage5Special(Stage5Emojis(Stage5Normalize(
            Stage4(Stage3(Stage2(Stage1(text, o), o), o), o), o), o), o), o), o), o)

\* the text clean_headline works on: text itself, or str(text)
AsText(text) == IF text.t = "str" THEN text.s ELSE PyStrOf(text)

\* text, already a str or stringified, through the early returns and stages
CleanText(text, str, o) ==
    IF text.t # "str" /\ Lower(str) = <<110, 97, 110>> THEN <<>>
    ELSE IF str = <<>> \/ Strip(str) = <<>> THEN <<>>
    ELSE CleanStages(str, o)

\* text is any Python value; the result is a str (a sequence of code points)
clean_headline(text, o) ==
    IF TreatedAsMissing(text) THEN <<>> ELSE CleanText(text, AsText(text), o)

(***************************************************************************)
(* The pandas operations clean_and_merge_data uses, on DataFrame values.   *)
(***************************************************************************)
output_columns ==
    <<"date", "ticker", "open", "high", "low", "close", "volume",
      "headlines", "headline_count">>

\* EmptyResult as pd.DataFrame() would be: no column at all
EmptyResultWithoutSchema == DataFrame(<<>>, <<>>)

\* the table returned for a null or empty price table
EmptyResult == DataFrame(output_columns, <<>>)

\* the aggregation used when no news row survives
EmptyAggregation(date_column) ==
    DataFrame(<<date_column, "headlines", "headline_count">>, <<>>)

\* df[date_column].apply(lambda x: normalize_date(x, errors='coerce'))
NormalizedDates(df, date_column) ==
    [i \in DOMAIN df.rows |-> normalize_date(df.rows[i][date_column], "coerce").value]

\* NotNa as a mask that keeps every row
KeepAllRows(df, col) == [i \in DOMAIN df.rows |-> TRUE]

\* ~df[col].isna()
NotNa(df, col) == [i \in DOMAIN df.rows |-> ~IsNa(df.rows[i][col])]

\* df[headline_column].apply(lambda x: clean_headline(x, **clean_options))
CleanedHeadlines(df, headline_column, clean_options) ==
    [i \in DOMAIN df.rows |->
        PyStr(clean_headline(df.rows[i][headline_column], clean_options))]

\* df['cleaned_headline'].str.len() > 0
NonEmptyHeadline(df) ==
    [i \in DOMAIN df.rows |-> Len(df.rows[i]["cleaned_headline"].s) > 0]

\* the group keys in ascending order (groupby sorts its keys)
RECURSIVE SortKeys(_)
SortKeys(keys) ==
    IF keys = {} THEN <<>>
    ELSE LET m == CHOOSE k \in keys : \A j \in keys : k.day <= j.day
         IN <<m>> \o SortKeys(keys \ {m})

RECURSIVE DropDuplicates(_)
DropDuplicates(xs) ==
    IF xs = <<>> THEN <<>>
    ELSE LET front == DropDuplicates(SubSeq(xs, 1, Len(xs) - 1))
         IN IF Contains(front, xs[Len(xs)]) THEN front ELSE Append(front, xs[Len(xs)])

\* GroupCells with the news rows of another ticker than the first of the
\* group left out
GroupCellsOfOneTicker(df, by, key, col) ==
    LET first == CHOOSE i \in DOMAIN df.rows :
                     /\ df.rows[i][by] = key
                     /\ \A j \in DOMAIN df.rows : df.rows[j][by] = key => i <= j
    IN Mask(Column(df, col),
            [i \in DOMAIN df.rows |->
                /\ df.rows[i][by] = key
                /\ HasColumn(df, "ticker") =>
                       df.rows[i]["ticker"] = df.rows[first]["ticker"]])

\* GroupCells with the duplicates of a group left out
GroupCellsUnique(df, by, key, col) ==
    DropDuplicates(Mask(Column(df, col), [i \in DOMAIN df.rows |-> df.rows[i][by] = key]))

\* the cells of column col in the rows of df whose key column equals key
GroupCells(df, by, key, col) ==
    Mask(Column(df, col), [i \in DOMAIN df.rows |-> df.rows[i][by] = key])

\* AggCount as 'nunique' would compute it: the number of distinct cells
AggCountDistinct(cells) == Cardinality(Range(cells))

\* the 'count' aggregation: the number of non-null cells
AggCount(cells) == Len(SelectSeq(cells, LAMBDA x : ~IsNa(x)))

\* df.groupby(by).agg(headlines=('cleaned_headline', list),
\*                    headline_count=('cleaned_headline', 'count')).reset_index()
\* (a group key that is null makes no group)
GroupByAgg(df, by) ==
    LET keys == SortKeys({k \in {df.rows[i][by] : i \in DOMAIN df.rows} : ~IsNa(k)})
        cols == <<by, "headlines", "headline_count">>
    IN DataFrame(cols,
        [n \in DOMAIN keys |->
            [k \in Range(cols) |->
                IF k = by THEN keys[n]
                ELSE IF k = "headlines"
                     THEN PyList(GroupCells(df, by, keys[n], "cleaned_headline"))
                ELSE PyInt(10 * AggCount(GroupCells(df, by, keys[n], "cleaned_headline")))]])

RECURSIVE Flatten(_)
Flatten(ss) == IF ss = <<>> THEN <<>> ELSE Head(ss) \o Flatten(Tail(ss))

\* LeftJoinMatches as how='inner' would have it: no row when no key is equal
InnerJoinMatches(l, right, on) == SelectSeq(right.rows, LAMBDA r : r[on] = l[on])

\* LeftJoinMatches as a nearest-key join (merge_asof, direction='nearest')
\* would have it: the right row whose day is closest to the left row's
NearestJoinMatches(l, right, on) ==
    LET Dist(r) == IF r[on].day >= l[on].day THEN r[on].day - l[on].day
                   ELSE l[on].day - r[on].day
        hits == SelectSeq(right.rows,
                          LAMBDA r : \A q \in Range(right.rows) : Dist(r) <= Dist(q))
    IN IF hits = <<>> THEN << [k \in Range(right.columns) |-> Null] >>
       ELSE <<hits[1]>>

\* the right rows a left row joins with under how='left': every right row
\* with an equal key, or one all-null row when there is none
LeftJoinMatches(l, right, on) ==
    LET hits == SelectSeq(right.rows, LAMBDA r : r[on] = l[on])
    IN IF hits = <<>> THEN << [k \in Range(right.columns) |-> Null] >> ELSE hits

\* left.merge(right, on=on, how='left'): the left rows in order, each once per
\* matching right row; a column name both sides use gets the suffix _x or _y
MergeLeft(left, right, on) ==
    LET rcols == SelectSeq(right.columns, LAMBDA c : c # on)
        both == (Range(left.columns) \cap Range(rcols)) \ {on}
        LName(c) == IF c \in both THEN c \o "_x" ELSE c
        RName(c) == IF c \in both THEN c \o "_y" ELSE c
        cols == [i \in DOMAIN left.columns |-> LName(left.columns[i])]
                \o [i \in DOMAIN rcols |-> RName(rcols[i])]
        Joined(l, r) ==
            [k \in Range(cols) |->
                IF \E c \in Range(left.columns) : LName(c) = k
                THEN l[CHOOSE c \in Range(left.columns) : LName(c) = k]
                ELSE r[CHOOSE c \in Range(rcols) : RName(c) = k]]
        RowsOf(l) ==
            LET ms == LeftJoinMatches(l, right, on)
            IN [j \in DOMAIN ms |-> Joined(l, ms[j])]
    IN DataFrame(cols, Flatten([i \in DOMAIN left.rows |-> RowsOf(left.rows[i])]))

\* merged_df['headlines'].apply(lambda x: x if isinstance(x, list) else [])
FilledHeadlines(df) ==
    [i \in DOMAIN df.rows |->
        IF df.rows[i]["headlines"].t = "list" THEN df.rows[i]["headlines"]
        ELSE PyList(<<>>)]

\* AstypeInt64 rounding a float to the nearest integer instead of truncating
AstypeInt64Rounded(x) ==
    IF IsNa(x) \/ ~IsNumber(x) THEN [raised |-> TRUE, value |-> Null]
    ELSE [raised |-> FALSE,
          value |-> PyInt(IF x.v >= 0 THEN ((x.v + 5) \div 10) * 10
                          ELSE -(((-x.v + 5) \div 10) * 10))]

\* astype('int64') of one cell: a float is truncated towards zero;
\* [raised, value]: a null cannot be cast
AstypeInt64(x) ==
    IF IsNa(x) \/ ~IsNumber(x) THEN [raised |-> TRUE, value |-> Null]
    ELSE [raised |-> FALSE,
          value |-> PyInt(IF x.v >= 0 THEN (x.v \div 10) * 10
                          ELSE -(((-x.v) \div 10) * 10))]

\* astype('float64') of one cell: a null becomes NaN
AstypeFloat64(x) ==
    IF IsNa(x) THEN [raised |-> FALSE, value |-> Null]
    ELSE IF IsNumber(x) THEN [raised |-> FALSE, value |-> PyFloat(x.v)]
    ELSE [raised |-> TRUE, value |-> Null]

\* astype(str) of one cell: None becomes the text 'None'
AstypeStr(x) ==
    IF x.t = "str" THEN x
    ELSE IF IsNa(x) THEN PyStr(<<78, 111, 110, 101>>)
    ELSE IF IsNumber(x) THEN PyStr(PyStrOf(x))
    ELSE PyStr(<<63>>)

\* merged_df['headline_count'].fillna(0).astype('int64')
FilledCounts(df) ==
    [i \in DOMAIN df.rows |->
        IF IsNa(df.rows[i]["headline_count"]) THEN PyInt(0)
        ELSE AstypeInt64(df.rows[i]["headline_count"]).value]

\* step 7, first half: every output column the table lacks is added
RECURSIVE AddMissingColumns(_, _)
AddMissingColumns(df, cols) ==
    IF cols = <<>> THEN df
    ELSE LET col == Head(cols)
             filled == IF HasColumn(df, col) THEN df
                       ELSE SetColumn(df, col,
                              [i \in DOMAIN df.rows |->
                                 IF col = "headlines" THEN PyList(<<>>)
                                 ELSE IF col = "headline_count" THEN PyInt(0)
                                 ELSE Null])
         IN AddMissingColumns(filled, Tail(cols))

\* the cast applied to a column of the output, cell by cell
CastCell(col, x) ==
    CASE col = "date" ->
            LET r == to_datetime(x, "raise")
            IN [raised |-> ~IsNa(x) /\ r.failed,
                value |-> IF IsNa(x) THEN Null ELSE r.value]
      [] col = "ticker" -> [raised |-> FALSE, value |-> AstypeStr(x)]
      [] col \in {"open", "high", "low", "close"} -> AstypeFloat64(x)
      [] col \in {"volume", "headline_count"} -> AstypeInt64(x)
      [] OTHER -> [raised |-> FALSE, value |-> x]

\* step 7, second half: the casts of lines 575-582; [raised, df]
EnsureTypes(df) ==
    [raised |-> \E i \in DOMAIN df.rows : \E col \in Range(df.columns) :
                    CastCell(col, df.rows[i][col]).raised,
     df |-> DataFrame(df.columns,
              [i \in DOMAIN df.rows |->
                 [col \in Range(df.columns) |-> CastCell(col, df.rows[i][col]).value]])]

\* OutputValidationError with the checks left out
NoOutputValidationError(df) == "None"

\* step 8: the error the final validation raises for df, or "None"
OutputValidationError(df) ==
    IF \E col \in {"open", "high", "low", "close", "volume"} : AnyNa(df, col)
    THEN "ValueError: NaN values found in output column"
    ELSE IF \E i \in DOMAIN df.rows : df.rows[i]["headline_count"].v < 0
    THEN "ValueError: Negative headline_count values found"
    ELSE IF \E i \in DOMAIN df.rows : df.rows[i]["headlines"].t # "list"
    THEN "ValueError: headlines column must contain lists"
    ELSE "None"

\* InputValidationError with the news table checked before the price table
InputValidationErrorNewsFirst(price, news) ==
    IF ~validate_news_dataframe(news).is_valid THEN "ValueError: Invalid news_data"
    ELSE IF ~validate_price_dataframe(price).is_valid THEN "ValueError: Invalid price_data"
    ELSE "None"

\* step 1: the error input validation raises, or "None"; price is checked first
InputValidationError(price, news) ==
    IF ~validate_price_dataframe(price).is_valid THEN "ValueError: Invalid price_data"
    ELSE IF ~validate_news_dataframe(news).is_valid THEN "ValueError: Invalid news_data"
    ELSE "None"

(***************************************************************************)
(* The heap of DataFrame objects.                                          *)
(***************************************************************************)
\* the value an argument names: the table a reference points to, or the
\* argument itself (None, a non-table)
Deref(h, x) == IF x.t = "ref" THEN h[x.id] ELSE x

\* DataFrameCopy as plain assignment would be: the same object under a new name
DataFrameAlias(h, id) == [heap |-> h, id |-> id]

\* DataFrame.copy(): a new object with the same content; [heap, id]
DataFrameCopy(h, id) == [heap |-> Append(h, h[id]), id |-> Len(h) + 1]

\* a new object holding df; [heap, id]
Alloc(h, df) == [heap |-> Append(h, df), id |-> Len(h) + 1]

(***************************************************************************)
(* clean_and_merge_data, step by step.  frame[c] holds the locals of call  *)
(* c: its arguments, its position pc, the tables it has bound so far       *)
(* (references into the heap, Null while unbound), the steps it has run    *)
(* and its outcome.                                                        *)
(***************************************************************************)
NoOutcome == [kind |-> "none", value |-> Null, error |-> "None"]

NewFrame(validate_inputs, validate_outputs, clean_options, date_column, headline_column) ==
    [pc |-> "validate_inputs",
     validate_inputs |-> validate_inputs,
     validate_outputs |-> validate_outputs,
     clean_options |-> clean_options,
     date_column |-> date_column,
     headline_column |-> headline_column,
     price_df |-> Null, news_df |-> Null,
     aggregated_news |-> Null, merged_df |-> Null,
     steps |-> {},
     outcome |-> NoOutcome]

Raise(f, step, error) ==
    [f EXCEPT !.pc = "done", !.steps = @ \cup {step},
              !.outcome = [kind |-> "raised", value |-> Null, error |-> error]]

Return(f, step, ref) ==
    [f EXCEPT !.pc = "done", !.steps = @ \cup {step},
              !.outcome = [kind |-> "returned", value |-> ref, error |-> "None"]]

Goto(f, step, pc) == [f EXCEPT !.pc = pc, !.steps = @ \cup {step}]

\* Step 1 (lines 458-468): input validation
ValidateInputs(c) ==
    LET f == frame[c]
        error == InputValidationError(Deref(heap, price_data), Deref(heap, news_data))
    IN /\ f.pc = "validate_inputs"
       /\ frame' = [frame EXCEPT ![c] =
            IF f.validate_inputs /\ error # "None"
            THEN Raise(f, "validate_inputs", error)
            ELSE Goto(f, "validate_inputs", "handle_empty_price")]
       /\ UNCHANGED <<heap, price_data, news_data, orig>>

\* lines 470-483: a null or empty price table returns the empty result
HandleEmptyPrice(c) ==
    LET f == frame[c]
        price == Deref(heap, price_data)
        new == Alloc(heap, EmptyResult)
    IN /\ f.pc = "handle_empty_price"
       /\ IF price.t = "null" \/ (IsDataFrame(price) /\ DfEmpty(price))
          THEN /\ heap' = new.heap
               /\ frame' = [frame EXCEPT ![c] = Return(f, "handle_empty_price", Ref(new.id))]
          ELSE /\ heap' = heap
               /\ frame' = [frame EXCEPT ![c] =
                    IF ~IsDataFrame(price)
                    THEN Raise(f, "handle_empty_price", "AttributeError: empty")
                    ELSE Goto(f, "handle_empty_price", "copy_inputs")]
       /\ UNCHANGED <<price_data, news_data, orig>>

\* Step 2 (lines 485-487): the working copies
CopyInputs(c) ==
    LET f == frame[c]
        news == Deref(heap, news_data)
        pcopy == DataFrameCopy(heap, price_data.id)
        ncopy == IF news.t = "null" \/ (IsDataFrame(news) /\ DfEmpty(news))
                 THEN Alloc(pcopy.heap, EmptyFrame)
                 ELSE DataFrameCopy(pcopy.heap, news_data.id)
    IN /\ f.pc = "copy_inputs"
       /\ IF news.t # "null" /\ ~IsDataFrame(news)
          THEN /\ heap' = pcopy.heap
               /\ frame' = [frame EXCEPT ![c] =
                    Raise([f EXCEPT !.price_df = Ref(pcopy.id)],
                          "copy_inputs", "AttributeError: empty")]
          ELSE /\ heap' = ncopy.heap
               /\ frame' = [frame EXCEPT ![c] =
                    Goto([f EXCEPT !.price_df = Ref(pcopy.id), !.news_df = Ref(ncopy.id)],
                         "copy_inputs", "normalize_price_dates")]
       /\ UNCHANGED <<price_data, news_data, orig>>

\* Step 3 (lines 489-497) on the heap: the date column is assigned in place,
\* then the rows with a null date are left out of a new table; [heap, id]
NormalizeAndDrop(h, id, date_column) ==
    LET d1 == SetColumn(h[id], date_column, NormalizedDates(h[id], date_column))
        h1 == [h EXCEPT ![id] = d1]
    IN IF \E i \in DOMAIN d1.rows : IsNa(d1.rows[i][date_column])
       THEN Alloc(h1, FilterRows(d1, NotNa(d1, date_column)))
       ELSE [heap |-> h1, id |-> id]

NormalizePriceDates(c) ==
    LET f == frame[c]
        r == NormalizeAndDrop(heap, f.price_df.id, f.date_column)
    IN /\ f.pc = "normalize_price_dates"
       /\ IF ~HasColumn(heap[f.price_df.id], f.date_column)
          THEN /\ heap' = heap
               /\ frame' = [frame EXCEPT ![c] =
                    Raise(f, "normalize_price_dates", "KeyError: date_column")]
          ELSE /\ heap' = r.heap
               /\ frame' = [frame EXCEPT ![c] =
                    Goto([f EXCEPT !.price_df = Ref(r.id)],
                         "normalize_price_dates", "process_news")]
       /\ UNCHANGED <<price_data, news_data, orig>>

\* lines 518-537 on the heap: the cleaned column is assigned in place, the
\* rows with a non-empty cleaned headline are copied to a new table, which is
\* aggregated by date; [heap, news_df, aggregated_news]
CleanAndAggregate(h, id, date_column, headline_column, clean_options) ==
    LET d3 == SetColumn(h[id], "cleaned_headline",
                        CleanedHeadlines(h[id], headline_column, clean_options))
        h3 == [h EXCEPT ![id] = d3]
        kept == Alloc(h3, FilterRows(d3, NonEmptyHeadline(d3)))
        d4 == kept.heap[kept.id]
        agg == Alloc(kept.heap,
                     IF DfEmpty(d4) THEN EmptyAggregation(date_column)
                     ELSE GroupByAgg(d4, date_column))
    IN [heap |-> agg.heap, news_df |-> kept.id, aggregated_news |-> agg.id]

\* Step 4 (lines 499-537): the news table is normalized, cleaned, aggregated
ProcessNews(c) ==
    LET f == frame[c]
        nid == f.news_df.id
        empty == Alloc(heap, EmptyAggregation(f.date_column))
        dated == NormalizeAndDrop(heap, nid, f.date_column)
        done == CleanAndAggregate(dated.heap, dated.id, f.date_column,
                                  f.headline_column, f.clean_options)
    IN /\ f.pc = "process_news"
       /\ IF DfEmpty(heap[nid])
          THEN /\ heap' = empty.heap
               /\ frame' = [frame EXCEPT ![c] =
                    Goto([f EXCEPT !.aggregated_news = Ref(empty.id)],
                         "process_news", "merge")]
          ELSE IF ~HasColumn(heap[nid], f.date_column)
          THEN /\ heap' = heap
               /\ frame' = [frame EXCEPT ![c] =
                    Raise(f, "process_news", "KeyError: date_column")]
          ELSE IF ~HasColumn(heap[nid], f.headline_column)
          THEN /\ heap' = dated.heap
               /\ frame' = [frame EXCEPT ![c] =
                    Raise([f EXCEPT !.news_df = Ref(dated.id)],
                          "process_news", "KeyError: headline_column")]
          ELSE /\ heap' = done.heap
               /\ frame' = [frame EXCEPT ![c] =
                    Goto([f EXCEPT !.news_df = Ref(done.news_df),
                                   !.aggregated_news = Ref(done.aggregated_news)],
                         "process_news", "merge")]
       /\ UNCHANGED <<price_data, news_data, orig>>

\* Step 5 (lines 539-544): the left join
Merge(c) ==
    LET f == frame[c]
        new == Alloc(heap, MergeLeft(heap[f.price_df.id], heap[f.aggregated_news.id],
                                     f.date_column))
    IN /\ f.pc = "merge"
       /\ heap' = new.heap
       /\ frame' = [frame EXCEPT ![c] =
            Goto([f EXCEPT !.merged_df = Ref(new.id)], "merge", "fill_missing")]
       /\ UNCHANGED <<price_data, news_data, orig>>

\* Step 6 (lines 546-553): days without news get [] and 0, in place
FillMissing(c) ==
    LET f == frame[c]
        mid == f.merged_df.id
        d1 == SetColumn(heap[mid], "headlines", FilledHeadlines(heap[mid]))
        d2 == SetColumn(d1, "headline_count", FilledCounts(d1))
    IN /\ f.pc = "fill_missing"
       /\ IF ~HasColumn(heap[mid], "headlines")
          THEN /\ heap' = heap
               /\ frame' = [frame EXCEPT ![c] =
                    Raise(f, "fill_missing", "KeyError: headlines")]
          ELSE IF ~HasColumn(heap[mid], "headline_count")
          THEN /\ heap' = [heap EXCEPT ![mid] = d1]
               /\ frame' = [frame EXCEPT ![c] =
                    Raise(f, "fill_missing", "KeyError: headline_count")]
          ELSE /\ heap' = [heap EXCEPT ![mid] = d2]
               /\ frame' = [frame EXCEPT ![c] = Goto(f, "fill_missing", "enforce_schema")]
       /\ UNCHANGED <<price_data, news_data, orig>>

\* Step 7 (lines 555-582): the output columns, in order and cast
EnforceSchema(c) ==
    LET f == frame[c]
        mid == f.merged_df.id
        full == AddMissingColumns(heap[mid], output_columns)
        new == Alloc([heap EXCEPT ![mid] = full], SelectColumns(full, output_columns))
        typed == EnsureTypes(new.heap[new.id])
    IN /\ f.pc = "enforce_schema"
       /\ heap' = IF typed.raised THEN new.heap
                  ELSE [new.heap EXCEPT ![new.id] = typed.df]
       /\ frame' = [frame EXCEPT ![c] =
            IF typed.raised
            THEN Raise([f EXCEPT !.merged_df = Ref(new.id)],
                       "enforce_schema", "ValueError: cannot cast")
            ELSE Goto([f EXCEPT !.merged_df = Ref(new.id)],
                      "enforce_schema", "validate_outputs")]
       /\ UNCHANGED <<price_data, news_data, orig>>

\* Step 8 (lines 584-600): the final validation and the return
ValidateOutputs(c) ==
    LET f == frame[c]
        error == OutputValidationError(heap[f.merged_df.id])
    IN /\ f.pc = "validate_outputs"
       /\ frame' = [frame EXCEPT ![c] =
            IF f.validate_outputs /\ error # "None"
            THEN Raise(f, "validate_outputs", error)
            ELSE Return(f, "validate_outputs", f.merged_df)]
       /\ UNCHANGED <<heap, price_data, news_data, orig>>

(***************************************************************************)
(* The inputs the calls are made with.                                     *)
(***************************************************************************)
SeqsUpTo(S, n) == UNION {[1..k -> S] : k \in 0..n}

\* the texts 'AAPL' and 'MSFT'
AAPL == PyStr(<<65, 65, 80, 76>>)
MSFT == PyStr(<<77, 83, 70, 84>>)

PriceRow(date, ticker, open, high, low, close, volume) ==
    [date |-> date, ticker |-> ticker, open |-> open, high |-> high,
     low |-> low, close |-> close, volume |-> volume]

\* 2024-01-02 is day 19724 of the epoch.  The rows: a clean one; one with a
\* zoned timestamp (late evening, five hours behind UTC), another ticker, an
\* int price and a fractional volume; one on the first day again with a null
\* open; one whose date text cannot be parsed
CleanPriceRow ==
    PriceRow(DateText(19724, 0, <<>>), AAPL, PyFloat(1850), PyFloat(1865),
             PyFloat(1845), PyFloat(1860), PyInt(10000))

NullVolumeRow ==
    PriceRow(DateText(19725, 0, <<>>), AAPL, PyFloat(1850), PyFloat(1865),
             PyFloat(1845), PyFloat(1860), Null)

NegativeVolumeRow ==
    PriceRow(DateText(19725, 0, <<>>), AAPL, PyFloat(1850), PyFloat(1865),
             PyFloat(1845), PyFloat(1860), PyFloat(-15))

NullDateRow ==
    PriceRow(Null, AAPL, PyFloat(1840), PyFloat(1855),
             PyFloat(1830), PyFloat(1850), PyInt(9000))

PriceRowChoices ==
    {CleanPriceRow,
     PriceRow(Timestamp(19725, 20, <<-5>>), MSFT, PyInt(3700), PyFloat(3725),
              PyFloat(3690), PyFloat(3701), PyFloat(12005)),
     PriceRow(Timestamp(19724, 10, <<>>), AAPL, Null, PyFloat(1865),
              PyFloat(1845), PyFloat(1860), PyInt(9000)),
     PriceRow(BadText, AAPL, PyFloat(1840), PyFloat(1855),
              PyFloat(1830), PyFloat(1850), PyInt(9000))}

\* row restricted to the columns cols, a column it lacks holding value
Reshape(row, cols, value) ==
    [k \in Range(cols) |-> IF k \in DOMAIN row THEN row[k] ELSE value]

\* two tickers on the first day, as in the fixture multi_ticker_price_data
MultiTickerPrice ==
    DataFrame(PriceRequiredColumns,
              << CleanPriceRow,
                 PriceRow(DateText(19724, 0, <<>>), MSFT, PyFloat(3700), PyFloat(3725),
                          PyFloat(3690), PyFloat(3701), PyInt(12000)) >>)

\* further price tables: no columns at all; a required column missing (volume,
\* open); a column more than required; a column named like an output column;
\* a null volume, alone and after a clean row; a negative fractional volume;
\* a null date, alone and before a clean row
PriceShapeVariants ==
    {EmptyFrame,
     DataFrame(<<"date", "ticker", "open", "high", "low", "close">>,
               << Reshape(CleanPriceRow,
                          <<"date", "ticker", "open", "high", "low", "close">>, Null) >>),
     DataFrame(<<"date", "ticker", "high", "low", "close", "volume">>,
               << Reshape(CleanPriceRow,
                          <<"date", "ticker", "high", "low", "close", "volume">>, Null) >>),
     DataFrame(Append(PriceRequiredColumns, "sector"),
               << Reshape(CleanPriceRow, Append(PriceRequiredColumns, "sector"),
                          PyStr(<<84>>)) >>),
     DataFrame(Append(PriceRequiredColumns, "headlines"),
               << Reshape(CleanPriceRow, Append(PriceRequiredColumns, "headlines"),
                          PyStr(<<84>>)) >>),
     DataFrame(PriceRequiredColumns, <<NullVolumeRow>>),
     DataFrame(PriceRequiredColumns, <<CleanPriceRow, NullVolumeRow>>),
     DataFrame(PriceRequiredColumns, <<NegativeVolumeRow>>),
     DataFrame(PriceRequiredColumns, <<NullDateRow>>),
     DataFrame(PriceRequiredColumns, <<NullDateRow, CleanPriceRow>>),
     MultiTickerPrice}

PriceTables ==
    {DataFrame(PriceRequiredColumns, rows) : rows \in SeqsUpTo(PriceRowChoices, MaxPriceRows)}
    \cup PriceShapeVariants

PriceArguments == {Null, NotATable} \cup PriceTables

NewsRow(date, headline) == [date |-> date, headline |-> headline]

\* The rows: 'Up' on the first day; 'a &amp; b' on the first day, late in the
\* evening of a zone nine hours ahead of UTC; '<b>$A</b>' on the second day;
\* 'Fed' on a day no price row has
CleanNewsRow == NewsRow(DateText(19724, 0, <<>>), PyStr(<<85, 112>>))

NewsRowChoices ==
    {CleanNewsRow,
     NewsRow(Timestamp(19724, 23, <<9>>), PyStr(<<97, 32, 38, 97, 109, 112, 59, 32, 98>>)),
     NewsRow(Timestamp(19725, 0, <<>>), PyStr(<<60, 98, 62, 36, 65, 60, 47, 98, 62>>)),
     NewsRow(DateText(19726, 0, <<>>), PyStr(<<70, 101, 100>>))}

\* news rows with the optional ticker column, as fetch_news_headlines makes
\* them: 'Up' for AAPL and 'a &amp; b' for MSFT on the first day
TickerNews ==
    DataFrame(<<"date", "ticker", "headline">>,
              << [date |-> DateText(19724, 0, <<>>), ticker |-> AAPL,
                  headline |-> PyStr(<<85, 112>>)],
                 [date |-> Timestamp(19724, 23, <<9>>), ticker |-> MSFT,
                  headline |-> PyStr(<<97, 32, 38, 97, 109, 112, 59, 32, 98>>)] >>)

\* further news tables: no columns at all; no headline column; the optional
\* source and ticker columns; a null headline and an unparseable date
\* around a clean row
NewsShapeVariants ==
    {EmptyFrame,
     DataFrame(<<"date">>, << Reshape(CleanNewsRow, <<"date">>, Null) >>),
     DataFrame(<<"date", "headline", "source", "ticker">>,
               << Reshape(CleanNewsRow, <<"date", "headline", "source", "ticker">>, MSFT) >>),
     DataFrame(NewsRequiredColumns,
               << NewsRow(DateText(19724, 0, <<>>), Null), CleanNewsRow,
                  NewsRow(BadText, PyStr(<<85, 112>>)) >>),
     DataFrame(NewsRequiredColumns,
               << NewsRow(BadText, PyStr(<<85, 112>>)) >>),
     TickerNews}

NewsTables ==
    {DataFrame(NewsRequiredColumns, rows) : rows \in SeqsUpTo(NewsRowChoices, MaxNewsRows)}
    \cup NewsShapeVariants

NewsArguments == {Null, NotATable} \cup NewsTables

\* the default options, and a set with ticker removal off and lowercasing on
LooseCleanOptions ==
    [DefaultCleanOptions EXCEPT !.remove_tickers = FALSE, !.lowercase = TRUE]

\* the options of a call: every pair of validation flags with the default
\* clean options, and both validations with the other clean options
OptionChoices ==
    {[validate_inputs |-> vi, validate_outputs |-> vo, clean_options |-> DefaultCleanOptions] :
        vi \in BOOLEAN, vo \in BOOLEAN}
    \cup {[validate_inputs |-> TRUE, validate_outputs |-> TRUE,
           clean_options |-> LooseCleanOptions]}

(***************************************************************************)
(* The specification: one call of clean_and_merge_data on any of the       *)
(* inputs, with any validation flags and either set of clean options.      *)
(***************************************************************************)
\* the caller's two arguments are put on the heap when they are tables
ArgumentsAre(price, news) ==
    /\ heap = (IF IsDataFrame(price) THEN <<price>> ELSE <<>>)
              \o (IF IsDataFrame(news) THEN <<news>> ELSE <<>>)
    /\ price_data = IF IsDataFrame(price) THEN Ref(1) ELSE price
    /\ news_data = IF IsDataFrame(news)
                   THEN Ref(IF IsDataFrame(price) THEN 2 ELSE 1) ELSE news
    /\ orig = [price |-> price, news |-> news]

Init ==
    \E price \in PriceArguments, news \in NewsArguments, o \in OptionChoices :
        /\ ArgumentsAre(price, news)
        /\ frame = [c \in {1} |->
                      NewFrame(o.validate_inputs, o.validate_outputs, o.clean_options,
                               "date", "headline")]

Next ==
    \E c \in DOMAIN frame :
        \/ ValidateInputs(c)
        \/ HandleEmptyPrice(c)
        \/ CopyInputs(c)
        \/ NormalizePriceDates(c)
        \/ ProcessNews(c)
        \/ Merge(c)
        \/ FillMissing(c)
        \/ EnforceSchema(c)
        \/ ValidateOutputs(c)

Spec == Init /\ [][Next]_vars

(***************************************************************************)
(* What the properties below speak of.                                     *)
(***************************************************************************)
Calls == DOMAIN frame

Done(c) == frame[c].pc = "done"
Returned(c) == frame[c].outcome.kind = "returned"
Raised(c) == frame[c].outcome.kind = "raised"

\* the table a call returned
Result(c) == heap[frame[c].outcome.value.id]

\* the calendar day a date value normalizes to, as <<day>>, or <<>> when it
\* does not normalize
DayOf(x) ==
    LET r == normalize_date(x, "coerce")
    IN IF r.raised \/ IsNa(r.value) THEN <<>> ELSE <<r.value.day>>

\* the rows of the caller's price table whose date normalizes, in order
SurvivingPriceRows ==
    IF IsDataFrame(orig.price) /\ HasColumn(orig.price, "date")
    THEN SelectSeq(orig.price.rows, LAMBDA r : DayOf(r["date"]) # <<>>)
    ELSE <<>>

\* the rows of the caller's news table, when it is one with both columns
NewsRows ==
    IF IsDataFrame(orig.news) /\ HasColumn(orig.news, "date")
       /\ HasColumn(orig.news, "headline")
    THEN orig.news.rows ELSE <<>>

\* the cleaned headlines of the news rows of day d that are not empty, in
\* the order of the news rows
HeadlinesOfDay(d, clean_options) ==
    LET onDay == SelectSeq(NewsRows, LAMBDA r : DayOf(r["date"]) = <<d>>)
        cleaned == [i \in DOMAIN onDay |->
                      PyStr(clean_headline(onDay[i]["headline"], clean_options))]
    IN SelectSeq(cleaned, LAMBDA h : h.s # <<>>)

Up == PyStr(<<85, 112>>)
AAndB == PyStr(<<97, 32, 38, 32, 98>>)

(***************************************************************************)
(* C1.  In every table clean_and_merge_data returns, each row's headlines  *)
(* is a list (never null, never absent) and its headline_count is the      *)
(* length of that list.                                                    *)
(***************************************************************************)
C1_HeadlineCountIsLength ==
    \A c \in Calls : Returned(c) =>
        LET t == Result(c) IN
        /\ HasColumn(t, "headlines") /\ HasColumn(t, "headline_count")
        /\ \A i \in DOMAIN t.rows :
            /\ t.rows[i]["headlines"].t = "list"
            /\ t.rows[i]["headline_count"] = PyInt(10 * Len(t.rows[i]["headlines"].items))

\* a returned table with a row of two equal headlines and a row of none
C1_Witness ==
    \E c \in Calls : Returned(c) /\
        \E i, j \in DOMAIN Result(c).rows :
            /\ Result(c).rows[i]["headlines"] = PyList(<<Up, Up>>)
            /\ Result(c).rows[i]["headline_count"] = PyInt(20)
            /\ Result(c).rows[j]["headlines"] = PyList(<<>>)
            /\ Result(c).rows[j]["headline_count"] = PyInt(0)

(***************************************************************************)
(* C2.  The row-count law: a returned table has exactly as many rows as    *)
(* the price table has rows whose date normalizes, whatever the news.      *)
(***************************************************************************)
C2_RowCountLaw ==
    \A c \in Calls : Returned(c) => Len(Result(c).rows) = Len(SurvivingPriceRows)

\* two price rows of one day, two news rows of that day, two rows returned
C2_Witness ==
    \E c \in Calls : Returned(c) /\
        /\ IsDataFrame(orig.price)
        /\ Len(orig.price.rows) = 2
        /\ Len(Result(c).rows) = 2
        /\ Result(c).rows[1]["date"] = Result(c).rows[2]["date"]
        /\ Result(c).rows[1]["headline_count"] = PyInt(20)
        /\ Result(c).rows[2]["headline_count"] = PyInt(20)

(***************************************************************************)
(* C3.  The headlines of a returned row of day d are the cleaned headlines *)
(* of the news rows whose date normalizes to d and whose cleaned headline  *)
(* is not empty, in news row order, duplicates kept; [] and 0 when there   *)
(* is none.                                                                *)
(***************************************************************************)
C3_HeadlinesOfTheDay ==
    \A c \in Calls : Returned(c) =>
        \A i \in DOMAIN Result(c).rows :
            LET row == Result(c).rows[i]
                want == IF IsNa(row["date"]) THEN <<>>
                        ELSE HeadlinesOfDay(row["date"].day, frame[c].clean_options)
            IN /\ row["headlines"] = PyList(want)
               /\ (want = <<>> => row["headline_count"] = PyInt(0))

\* a returned row holding 'a & b' before 'Up', as the news rows were ordered
C3_Witness ==
    \E c \in Calls : Returned(c) /\
        \E i \in DOMAIN Result(c).rows :
            Result(c).rows[i]["headlines"] = PyList(<<AAndB, Up>>)

(***************************************************************************)
(* C4.  Date exclusivity: a day that only news rows have is the date of no *)
(* returned row, and every headline of a returned row is the cleaned       *)
(* headline of a news row of that row's own day.                           *)
(***************************************************************************)
NewsOnlyDays ==
    {r["date"].day : r \in {q \in Range(NewsRows) : DayOf(q["date"]) # <<>>}}
    \ {DayOf(r["date"])[1] : r \in Range(SurvivingPriceRows)}

C4_DateExclusivity ==
    \A c \in Calls : Returned(c) =>
        \A i \in DOMAIN Result(c).rows :
            LET row == Result(c).rows[i] IN
            /\ ~IsNa(row["date"]) => row["date"].day \notin NewsOnlyDays
            /\ \A h \in Range(row["headlines"].items) :
                \E r \in Range(NewsRows) :
                    /\ ~IsNa(row["date"])
                    /\ DayOf(r["date"]) = <<row["date"].day>>
                    /\ PyStr(clean_headline(r["headline"], frame[c].clean_options)) = h

\* the news has a day of its own, and a row is returned with a headline
C4_Witness ==
    \E c \in Calls : Returned(c) /\
        /\ NewsOnlyDays # {}
        /\ \E i \in DOMAIN Result(c).rows : Result(c).rows[i]["headline_count"] = PyInt(10)
        /\ \E i \in DOMAIN Result(c).rows : Result(c).rows[i]["headline_count"] = PyInt(0)


OHLC == {"open", "high", "low", "close"}

\* output row k came from the k-th surviving price row
CameFrom(c, k) ==
    /\ Len(Result(c).rows) = Len(SurvivingPriceRows)
    /\ k \in DOMAIN SurvivingPriceRows

Abs(n) == IF n >= 0 THEN n ELSE -n

\* the input price row has field f and its value is a number
NumericIn(row, f) == f \in DOMAIN row /\ IsNumber(row[f])

(***************************************************************************)
(* C5, as stated.  For every output row, each of open, high, low, close    *)
(* and volume equals exactly the numeric value of the same field in the    *)
(* input price row it came from, non-integer volumes included.  A volume of      *)
(* 1200.5 comes out as 1200, so this does not hold.                        *)
(***************************************************************************)
C5_AllValuesPreserved ==
    \A c \in Calls :
        Done(c) /\ Returned(c) =>
            \A k \in DOMAIN Result(c).rows :
                CameFrom(c, k) =>
                    \A f \in OHLC \cup {"volume"} :
                        NumericIn(SurvivingPriceRows[k], f) =>
                            /\ IsNumber(Result(c).rows[k][f])
                            /\ Result(c).rows[k][f].v = SurvivingPriceRows[k][f].v

(***************************************************************************)
(* C5, amended.  For every output row, open, high, low and close equal     *)
(* the value of the same field in the input price row it came from, and    *)
(* volume is an integer equal to the input volume with its fractional      *)
(* part discarded (towards zero): equal to the input volume exactly when   *)
(* that is integer-valued.                                                 *)
(***************************************************************************)
C5_ValuesPreservedVolumeTruncated ==
    \A c \in Calls :
        Done(c) /\ Returned(c) =>
            \A k \in DOMAIN Result(c).rows :
                CameFrom(c, k) =>
                    LET out == Result(c).rows[k]
                        in == SurvivingPriceRows[k]
                    IN /\ \A f \in OHLC :
                            NumericIn(in, f) =>
                                IsNumber(out[f]) /\ out[f].v = in[f].v
                       /\ NumericIn(in, "volume") =>
                            /\ out["volume"].t = "int"
                            /\ out["volume"].v % 10 = 0
                            /\ Abs(out["volume"].v) <= Abs(in["volume"].v)
                            /\ Abs(in["volume"].v) - Abs(out["volume"].v) < 10
                            /\ in["volume"].v >= 0 => out["volume"].v >= 0
                            /\ in["volume"].v <= 0 => out["volume"].v <= 0

\* a call returned a row whose input volume 1200.5 came out as 1200 next to
\* an unchanged integer open of 370
C5_Witness ==
    \E c \in Calls :
        /\ Done(c) /\ Returned(c)
        /\ \E k \in DOMAIN Result(c).rows :
            /\ CameFrom(c, k)
            /\ SurvivingPriceRows[k]["volume"] = PyFloat(12005)
            /\ Result(c).rows[k]["volume"] = PyInt(12000)
            /\ SurvivingPriceRows[k]["open"] = PyInt(3700)
            /\ Result(c).rows[k]["open"] = PyFloat(3700)

(***************************************************************************)
(* C6.  clean_and_merge_data never mutates the caller's tables: after any  *)
(* call, whether it returns or raises, the price table and the news table  *)
(* passed in are equal to what they were before the call.                  *)
(***************************************************************************)
C6_InputsNotMutated ==
    \A c \in Calls :
        Done(c) =>
            /\ Deref(heap, price_data) = orig.price
            /\ Deref(heap, news_data) = orig.news

\* a call returned after it normalized, filtered and extended its own copies
\* of both tables
C6_Witness ==
    \E c \in Calls :
        /\ Done(c) /\ Returned(c)
        /\ frame[c].price_df # Null /\ frame[c].news_df # Null
        /\ Deref(heap, frame[c].price_df) # orig.price
        /\ Deref(heap, frame[c].news_df) # orig.news
        /\ HasColumn(Deref(heap, frame[c].news_df), "cleaned_headline")


\* table t has a null in open, high, low, close or volume, a headline_count
\* that is not a non-negative integer, or a headlines value that is not a list
HasOutputDefect(t) ==
    \E i \in DOMAIN t.rows :
        LET row == t.rows[i]
        IN \/ \E f \in OHLC \cup {"volume"} : f \notin DOMAIN row \/ IsNa(row[f])
           \/ "headline_count" \notin DOMAIN row
           \/ row["headline_count"].t # "int"
           \/ row["headline_count"].v < 0
           \/ "headlines" \notin DOMAIN row
           \/ row["headlines"].t # "list"

(***************************************************************************)
(* C7.  With output validation enabled, clean_and_merge_data never returns *)
(* a table that has a null in open, high, low, close or volume, a negative *)
(* headline_count, or a headlines value that is not a list: when the       *)
(* table that reaches the final validation has such a value the call       *)
(* raises, and the value is still there (it is not repaired).              *)
(***************************************************************************)
C7_ValidatedOutputHasNoDefect ==
    \A c \in Calls :
        Done(c) /\ frame[c].validate_outputs =>
            /\ Returned(c) => ~HasOutputDefect(Result(c))
            /\ ("validate_outputs" \in frame[c].steps
                /\ HasOutputDefect(Deref(heap, frame[c].merged_df)))
               => Raised(c)

\* a call with output validation enabled raised at the final validation, and
\* the table it built still has the null open of its price row
C7_Witness ==
    \E c \in Calls :
        /\ Done(c) /\ frame[c].validate_outputs /\ Raised(c)
        /\ "validate_outputs" \in frame[c].steps
        /\ frame[c].outcome.error = "ValueError: NaN values found in output column"
        /\ \E i \in DOMAIN Deref(heap, frame[c].merged_df).rows :
               IsNa(Deref(heap, frame[c].merged_df).rows[i]["open"])

\* what is wrong with the shape of an argument, judged on the caller's value
PriceShapeError ==
    \/ orig.price = Null
    \/ ~IsDataFrame(orig.price)
    \/ /\ orig.price.rows # <<>>
       /\ \E f \in {"date", "ticker", "open", "high", "low", "close", "volume"} :
              ~Contains(orig.price.columns, f)

NewsShapeError ==
    \/ orig.news = Null
    \/ ~IsDataFrame(orig.news)
    \/ /\ orig.news.rows # <<>>
       /\ \E f \in {"date", "headline"} : ~Contains(orig.news.columns, f)

(***************************************************************************)
(* C8.  Fail-fast on shape errors: with input validation enabled, if the   *)
(* price table is null, not a table, or non-empty and missing a required   *)
(* column, or the news table is null, not a table, or non-empty and        *)
(* missing date or headline, the call raises before any date               *)
(* normalization, headline cleaning or merge step runs and returns no      *)
(* table; the price table is checked before the news table.                *)
(***************************************************************************)
C8_FailFastOnShapeErrors ==
    \A c \in Calls :
        frame[c].validate_inputs /\ (PriceShapeError \/ NewsShapeError) =>
            /\ frame[c].pc \in {"validate_inputs", "done"}
            /\ frame[c].price_df = Null /\ frame[c].news_df = Null
            /\ frame[c].aggregated_news = Null /\ frame[c].merged_df = Null
            /\ Done(c) =>
                /\ Raised(c)
                /\ frame[c].outcome.value = Null
                /\ frame[c].steps = {"validate_inputs"}
                /\ frame[c].outcome.error \in {"ValueError: Invalid price_data",
                                               "ValueError: Invalid news_data"}
                /\ PriceShapeError =>
                       frame[c].outcome.error = "ValueError: Invalid price_data"

\* a call raised for its price table although its news table has a shape
\* error too
C8_Witness ==
    \E c \in Calls :
        /\ Done(c) /\ frame[c].validate_inputs /\ Raised(c)
        /\ PriceShapeError /\ NewsShapeError
        /\ IsDataFrame(orig.price) /\ IsDataFrame(orig.news)
        /\ frame[c].outcome.error = "ValueError: Invalid price_data"


\* the options a call has when the caller passes none
DefaultOptions(c) ==
    /\ frame[c].validate_inputs /\ frame[c].validate_outputs
    /\ frame[c].clean_options = DefaultCleanOptions

\* the caller's price rows whose date is null / is not null and unparseable
NullDateRows ==
    IF IsDataFrame(orig.price) /\ HasColumn(orig.price, "date")
    THEN SelectSeq(orig.price.rows, LAMBDA r : IsNa(r["date"])) ELSE <<>>

UnparseableDateRows ==
    IF IsDataFrame(orig.price) /\ HasColumn(orig.price, "date")
    THEN SelectSeq(orig.price.rows,
                   LAMBDA r : ~IsNa(r["date"]) /\ DayOf(r["date"]) = <<>>)
    ELSE <<>>

\* the call has nothing to object to but the dates of its price rows: both
\* tables have their columns, no ticker is null and every price row whose
\* date normalizes has its five numbers
OnlyPriceDatesDefective ==
    /\ ~PriceShapeError /\ ~NewsShapeError
    /\ orig.price.rows # <<>>
    /\ \A i \in DOMAIN orig.price.rows : ~IsNa(orig.price.rows[i]["ticker"])
    /\ \A k \in DOMAIN SurvivingPriceRows :
           \A f \in OHLC \cup {"volume"} : IsNumber(SurvivingPriceRows[k][f])

\* the call returned the price rows whose date normalizes, in order
ReturnedSurvivingRows(c) ==
    /\ Returned(c)
    /\ Len(Result(c).rows) = Len(SurvivingPriceRows)
    /\ \A k \in DOMAIN SurvivingPriceRows :
           /\ <<Result(c).rows[k]["date"].day>> = DayOf(SurvivingPriceRows[k]["date"])
           /\ Result(c).rows[k]["ticker"] = SurvivingPriceRows[k]["ticker"]

(***************************************************************************)
(* C9, as stated.  With default options a price row whose date fails to    *)
(* normalize (a null date or an unparseable date value) is dropped         *)
(* silently: the call does not raise because of it and returns the         *)
(* remaining price rows.  A null date makes input validation raise, so     *)
(* this does not hold.                                                     *)
(***************************************************************************)
C9_FailedDatesDropped ==
    \A c \in Calls :
        (/\ Done(c) /\ DefaultOptions(c) /\ OnlyPriceDatesDefective
         /\ NullDateRows \o UnparseableDateRows # <<>>)
        => ReturnedSurvivingRows(c)

(***************************************************************************)
(* C9, amended.  With default options a price row whose date is not null   *)
(* and fails to parse is dropped silently: the call does not raise because *)
(* of it and returns the remaining price rows.  A price row whose date is  *)
(* null is dropped in the same way only when input validation is           *)
(* disabled; with input validation enabled (the default) the call raises   *)
(* 'Invalid price_data' before any row is processed.                       *)
(***************************************************************************)
C9_UnparseableDatesDroppedNullDatesRejected ==
    \A c \in Calls :
        (/\ Done(c) /\ frame[c].validate_outputs
         /\ frame[c].clean_options = DefaultCleanOptions
         /\ OnlyPriceDatesDefective
         /\ NullDateRows \o UnparseableDateRows # <<>>)
        => IF frame[c].validate_inputs /\ NullDateRows # <<>>
           THEN /\ Raised(c)
                /\ frame[c].outcome.error = "ValueError: Invalid price_data"
                /\ frame[c].steps = {"validate_inputs"}
           ELSE ReturnedSurvivingRows(c)

\* a call with default options returned one price row of two: the other had
\* an unparseable date
C9_Witness ==
    \E c \in Calls :
        /\ Done(c) /\ DefaultOptions(c) /\ OnlyPriceDatesDefective
        /\ Len(UnparseableDateRows) = 1 /\ Len(orig.price.rows) = 2
        /\ ReturnedSurvivingRows(c)
        /\ Len(Result(c).rows) = 1

PriceNullOrEmpty ==
    orig.price = Null \/ (IsDataFrame(orig.price) /\ orig.price.rows = <<>>)

\* the call returned a table of no row with exactly the output schema, and
\* ran nothing but the input validation and the empty-price branch
ShortCircuited(c) ==
    /\ Returned(c)
    /\ Result(c).rows = <<>>
    /\ Result(c).columns =
           <<"date", "ticker", "open", "high", "low", "close", "volume",
             "headlines", "headline_count">>
    /\ frame[c].steps = {"validate_inputs", "handle_empty_price"}
    /\ frame[c].price_df = Null /\ frame[c].news_df = Null

(***************************************************************************)
(* C10, as stated.  If the price table is null or empty, the call returns  *)
(* an empty table (zero rows) with exactly the output schema, skipping all *)
(* other steps, whatever the news table is.  With input validation         *)
(* enabled a null price table, or a news table with a shape error, makes   *)
(* the call raise, so this does not hold.                                  *)
(***************************************************************************)
C10_EmptyPriceShortCircuit ==
    \A c \in Calls : Done(c) /\ PriceNullOrEmpty => ShortCircuited(c)

(***************************************************************************)
(* C10, amended.  If the price table is null or empty, the call returns    *)
(* an empty table (zero rows) with exactly the output schema, skipping all *)
(* other steps, whatever the news table is, provided input validation is   *)
(* disabled or passes; with input validation enabled a null price table    *)
(* raises 'Invalid price_data' and an empty price table with a news table  *)
(* that has a shape error raises 'Invalid news_data'.                      *)
(***************************************************************************)
C10_EmptyPriceShortCircuitAfterValidation ==
    \A c \in Calls :
        Done(c) /\ PriceNullOrEmpty =>
            IF ~frame[c].validate_inputs THEN ShortCircuited(c)
            ELSE IF orig.price = Null
                 THEN /\ Raised(c)
                      /\ frame[c].outcome.error = "ValueError: Invalid price_data"
            ELSE IF NewsShapeError
                 THEN /\ Raised(c)
                      /\ frame[c].outcome.error = "ValueError: Invalid news_data"
            ELSE ShortCircuited(c)

\* a call with input validation enabled returned the empty table for an empty
\* price table although the news table had rows
C10_Witness ==
    \E c \in Calls :
        /\ Done(c) /\ frame[c].validate_inputs
        /\ IsDataFrame(orig.price) /\ orig.price.rows = <<>>
        /\ IsDataFrame(orig.news) /\ orig.news.rows # <<>>
        /\ ShortCircuited(c)


(***************************************************************************)
(* C11.  Every table clean_and_merge_data returns, the empty               *)
(* short-circuit result and the result when every price date was dropped   *)
(* included, has exactly the columns date, ticker, open, high, low, close, *)
(* volume, headlines, headline_count in that order, with no extra column   *)
(* carried over from the inputs.                                           *)
(***************************************************************************)
C11_ExactOutputColumns ==
    \A c \in Calls :
        Done(c) /\ Returned(c) =>
            /\ Result(c).columns =
                   <<"date", "ticker", "open", "high", "low", "close", "volume",
                     "headlines", "headline_count">>
            /\ \A i \in DOMAIN Result(c).rows :
                   DOMAIN Result(c).rows[i] =
                       {"date", "ticker", "open", "high", "low", "close", "volume",
                        "headlines", "headline_count"}

\* a call returned a row for a price table that has a sector column, with a
\* news table that has columns of its own
C11_Witness ==
    \E c \in Calls :
        /\ Done(c) /\ Returned(c)
        /\ IsDataFrame(orig.price) /\ HasColumn(orig.price, "sector")
        /\ IsDataFrame(orig.news) /\ Len(orig.news.columns) > 2
        /\ Result(c).rows # <<>>


(***************************************************************************)
(* clean_headline called on its own: one call on a value, and then again   *)
(* on what the call before returned.                                       *)
(***************************************************************************)
MaxTokens == 3
MaxCleanPasses == 2

\* the pieces the texts are made of:  &amp;  amp;  &lt;b&gt;  <b>  $  &#36;
\* AB  100  space  http://x.y  U+1F600  U+FF04 (fullwidth dollar sign)
\* U+FF1C b U+FF1E (b between fullwidth less-than and greater-than signs)
Tokens ==
    {<<38, 97, 109, 112, 59>>, <<97, 109, 112, 59>>,
     <<38, 108, 116, 59, 98, 38, 103, 116, 59>>, <<60, 98, 62>>,
     <<36>>, <<38, 35, 51, 54, 59>>, <<65, 66>>, <<49, 48, 48>>, <<32>>,
     <<104, 116, 116, 112, 58, 47, 47, 120, 46, 121>>, <<128512>>, <<65284>>,
     <<65308, 98, 65310>>}

Texts == {PyStr(Flatten(ts)) : ts \in SeqsUpTo(Tokens, MaxTokens)}

\* 'nan', 'NaN' and 'True'
NanLower == <<110, 97, 110>>
NanMixed == <<78, 97, 78>>
TrueText == <<84, 114, 117, 101>>

\* values that are not a str: None, 12345, 123.4, -5, True, an object whose
\* str() is 'nan' or 'NaN', and the lists [], [None], ['AB'], [None, None]
NonTexts ==
    {Null, PyInt(123450), PyFloat(1234), PyInt(-50), PyObject(TrueText),
     PyObject(NanLower), PyObject(NanMixed),
     PyList(<<>>), PyList(<<Null>>), PyList(<<PyStr(<<65, 66>>)>>),
     PyList(<<Null, Null>>)}

\* every assignment of the nine flags
FlagAssignments ==
    [{"remove_urls", "remove_html_entities", "remove_emojis", "remove_special_chars",
      "normalize_whitespace", "strip_whitespace", "remove_tickers", "lowercase",
      "remove_html_tags"} -> BOOLEAN]

\* ' <b>$AB</b> http://x.y  café \U0001F600 &amp; '
BusyText ==
    <<32, 60, 98, 62, 36, 65, 66, 60, 47, 98, 62, 32, 104, 116, 116, 112, 58,
      47, 47, 120, 46, 121, 32, 32, 99, 97, 102, 233, 32, 128512, 32, 38, 97,
      109, 112, 59, 32>>

\* 'http:&#47;&#47;x.y AB'
EncodedUrlText ==
    <<104, 116, 116, 112, 58, 38, 35, 52, 55, 59, 38, 35, 52, 55, 59, 120, 46,
      121, 32, 65, 66>>

\* 'A <$100> B'
TaggedAmountText == <<65, 32, 60, 36, 49, 48, 48, 62, 32, 66>>

\* texts with something for every stage: the three above, '  ' and
\* 'A  $100 &lt;'
ToggleTexts ==
    {PyStr(BusyText), PyStr(<<32, 32>>),
     PyStr(<<65, 32, 32, 36, 49, 48, 48, 32, 38, 108, 116, 59>>),
     PyStr(EncodedUrlText), PyStr(TaggedAmountText)}

\* the frame of a call of clean_headline and of the calls on its results
CleanFrame(text, o) ==
    [pc |-> "clean_headline", text |-> text, options |-> o, results |-> <<>>,
     outcome |-> NoOutcome]

CleanInit ==
    /\ heap = <<>>
    /\ price_data = Null /\ news_data = Null
    /\ orig = [price |-> Null, news |-> Null]
    /\ \/ \E text \in Texts \cup NonTexts :
             frame = [c \in {1} |-> CleanFrame(text, DefaultCleanOptions)]
       \/ \E text \in ToggleTexts, o \in FlagAssignments :
             frame = [c \in {1} |-> CleanFrame(text, o)]

\* result = clean_headline(text, **options), with text the argument of the
\* first call and the result of the call before in the later ones
CleanHeadline(c) ==
    LET f == frame[c]
        text == IF f.results = <<>> THEN f.text ELSE PyStr(f.results[Len(f.results)])
        result == clean_headline(text, f.options)
    IN /\ f.pc = "clean_headline"
       /\ Len(f.results) < MaxCleanPasses
       /\ frame' = [frame EXCEPT ![c] =
            [f EXCEPT !.results = Append(@, result),
                      !.pc = IF Len(f.results) + 1 = MaxCleanPasses
                             THEN "done" ELSE "clean_headline",
                      !.outcome = [kind |-> "returned", value |-> PyStr(result),
                                   error |-> "None"]]]
       /\ UNCHANGED <<heap, price_data, news_data, orig>>

CleanNext == \E c \in DOMAIN frame : CleanHeadline(c)

CleanSpec == CleanInit /\ [][CleanNext]_vars

\* the calls of clean_headline that returned, and what the first returned
Cleaned(c) == frame[c].results # <<>>
FirstResult(c) == frame[c].results[1]

\* s has w somewhere in it
HasSubstring(s, w) == \E i \in 1..Len(s) : MatchesAt(s, i, w)


\* the call has the options a caller who passes none gets
DefaultClean(c) == frame[c].options = DefaultCleanOptions

\* s still has something the first three stages look for: a tag, a
\* character reference or a URL
HasTagRefOrUrl(s) ==
    \E i \in 1..Len(s) :
        \/ TagEnd(s, i) # 0
        \/ (s[i] = 38 /\ CharRef(s, i).end # 0)
        \/ UrlEnd(s, i) # 0

(***************************************************************************)
(* C12, as stated.  For every input x, cleaning the already-clean result   *)
(* again with the same default options returns it unchanged:               *)
(* clean(clean(x)) = clean(x).  '&amp;amp;' cleans to '&amp;' and that to  *)
(* '&', so this does not hold.                                             *)
(***************************************************************************)
C12_Idempotent ==
    \A c \in Calls :
        DefaultClean(c) /\ Len(frame[c].results) >= 2 =>
            frame[c].results[2] = frame[c].results[1]

(***************************************************************************)
(* C12, amended.  For every input x whose cleaned form clean(x) holds no   *)
(* tag, no character reference and no URL, cleaning clean(x) again with    *)
(* the same default options returns it unchanged.                          *)
(***************************************************************************)
C12_IdempotentOnSettledResults ==
    \A c \in Calls :
        (/\ DefaultClean(c) /\ Len(frame[c].results) >= 2
         /\ ~HasTagRefOrUrl(frame[c].results[1]))
        => frame[c].results[2] = frame[c].results[1]

\* the text ' <b>$AB</b> http://x.y  café ... &amp; ' was cleaned twice, to
\* 'cafe &' both times
C12_Witness ==
    \E c \in Calls :
        /\ DefaultClean(c) /\ Len(frame[c].results) >= 2
        /\ frame[c].text = PyStr(BusyText)
        /\ frame[c].results[1] = <<99, 97, 102, 101, 32, 38>>
        /\ frame[c].results[2] = <<99, 97, 102, 101, 32, 38>>


\* s with every &#36; written as $ and every &#47; written as /
RECURSIVE DecodeDollarSlash(_)
DecodeDollarSlash(s) ==
    IF s = <<>> THEN <<>>
    ELSE IF MatchesAt(s, 1, <<38, 35, 51, 54, 59>>)
         THEN <<36>> \o DecodeDollarSlash(SubSeq(s, 6, Len(s)))
    ELSE IF MatchesAt(s, 1, <<38, 35, 52, 55, 59>>)
         THEN <<47>> \o DecodeDollarSlash(SubSeq(s, 6, Len(s)))
    ELSE <<Head(s)>> \o DecodeDollarSlash(Tail(s))

(***************************************************************************)
(* C13.  clean_headline applies its stages in the order strip tags,        *)
(* unescape entities, remove URLs, remove tickers, remove emoji and        *)
(* special characters, collapse whitespace, trim, lowercase.  With the     *)
(* default options a text with an entity-encoded $ or / is cleaned to what *)
(* the text with the plain character is cleaned to, so an entity-encoded   *)
(* ticker or URL is removed: '&#36;AB' gives '' and                        *)
(* 'http:&#47;&#47;x.y AB' gives 'AB'; a tag that is entity-encoded is     *)
(* past the tag stage and stays: '&lt;b&gt;' gives '<b>'; a ticker goes    *)
(* before its $ would be dropped as a special character: '$AB' gives '' ;  *)
(* and the spaces left around what was removed are collapsed and trimmed:  *)
(* ' <b>$AB</b> http://x.y  café (emoji) &amp; ' gives 'cafe &'.           *)
(***************************************************************************)
C13_StagesInOrder ==
    \A c \in Calls :
        DefaultClean(c) /\ Cleaned(c) /\ frame[c].text.t = "str" =>
            LET text == frame[c].text.s
                result == FirstResult(c)
            IN /\ result = clean_headline(PyStr(DecodeDollarSlash(text)),
                                          DefaultCleanOptions)
               /\ text = <<38, 35, 51, 54, 59, 65, 66>> => result = <<>>
               /\ text = EncodedUrlText => result = <<65, 66>>
               /\ text = <<38, 108, 116, 59, 98, 38, 103, 116, 59>>
                  => result = <<60, 98, 62>>
               /\ text = <<36, 65, 66>> => result = <<>>
               /\ text = BusyText => result = <<99, 97, 102, 101, 32, 38>>

\* '100&#36;AB' was cleaned to '100'
C13_Witness ==
    \E c \in Calls :
        /\ DefaultClean(c) /\ Cleaned(c)
        /\ frame[c].text = PyStr(<<49, 48, 48, 38, 35, 51, 54, 59, 65, 66>>)
        /\ FirstResult(c) = <<49, 48, 48>>


\* the ten transformations of the eight stages, and the flags each runs under
Transformation(k, s) ==
    CASE k = 1 -> HTML_TAG_PATTERN_sub(s)
      [] k = 2 -> html_unescape(s)
      [] k = 3 -> URL_PATTERN_sub(s)
      [] k = 4 -> TICKER_PATTERN_sub(s)
      [] k = 5 -> NFKD(s)
      [] k = 6 -> RemoveEmojis(s)
      [] k = 7 -> SPECIAL_CHAR_PATTERN_sub(s)
      [] k = 8 -> WHITESPACE_PATTERN_sub(s)
      [] k = 9 -> Strip(s)
      [] k = 10 -> Lower(s)

Enabled(k, o) ==
    CASE k = 1 -> o.remove_html_tags
      [] k = 2 -> o.remove_html_entities
      [] k = 3 -> o.remove_urls
      [] k = 4 -> o.remove_tickers
      [] k = 5 -> o.remove_emojis \/ o.remove_special_chars
      [] k = 6 -> o.remove_emojis
      [] k = 7 -> o.remove_special_chars
      [] k = 8 -> o.normalize_whitespace
      [] k = 9 -> o.strip_whitespace
      [] k = 10 -> o.lowercase

\* s after the enabled ones of the first k transformations, in order
RECURSIVE ThroughEnabled(_, _, _)
ThroughEnabled(k, s, o) ==
    IF k = 0 THEN s
    ELSE IF Enabled(k, o) THEN Transformation(k, ThroughEnabled(k - 1, s, o))
    ELSE ThroughEnabled(k - 1, s, o)

AllDisabled(o) == \A k \in 1..10 : ~Enabled(k, o)

\* s is empty or all white space
Blank(s) == \A i \in DOMAIN s : IsSpace(s[i])

(***************************************************************************)
(* C14, as stated.  For every text and every assignment of the stage       *)
(* flags, clean_headline returns the text transformed by exactly the       *)
(* enabled stages; with every stage disabled the text is returned          *)
(* unchanged.  A text of white space only is returned as '' even with      *)
(* every stage disabled, so this does not hold.                            *)
(***************************************************************************)
C14_ExactlyTheEnabledStages ==
    \A c \in Calls :
        Cleaned(c) /\ frame[c].text.t = "str" =>
            /\ FirstResult(c) = ThroughEnabled(10, frame[c].text.s, frame[c].options)
            /\ AllDisabled(frame[c].options) => FirstResult(c) = frame[c].text.s

(***************************************************************************)
(* C14, amended.  For every text that is not empty or all white space and  *)
(* every assignment of the stage flags, clean_headline returns the text    *)
(* transformed by exactly the enabled stages, in order, and by nothing     *)
(* else; with every stage disabled that text is returned unchanged.  An    *)
(* empty or all-white-space text is returned as the empty string whatever  *)
(* the flags are.                                                          *)
(***************************************************************************)
C14_ExactlyTheEnabledStagesUnlessBlank ==
    \A c \in Calls :
        Cleaned(c) /\ frame[c].text.t = "str" =>
            IF Blank(frame[c].text.s) THEN FirstResult(c) = <<>>
            ELSE /\ FirstResult(c) =
                        ThroughEnabled(10, frame[c].text.s, frame[c].options)
                 /\ AllDisabled(frame[c].options) => FirstResult(c) = frame[c].text.s

\* the busy text came back unchanged from a call with every flag off
C14_Witness ==
    \E c \in Calls :
        /\ Cleaned(c) /\ frame[c].text = PyStr(BusyText)
        /\ AllDisabled(frame[c].options)
        /\ FirstResult(c) = BusyText


\* s has a '$' at i with a digit right after it
DollarAmountAt(s, i) == s[i] = 36 /\ i + 1 <= Len(s) /\ IsDigit(s[i + 1])

\* the digits of the amount at i
AmountDigits(s, i) == SubSeq(s, i + 1, DigitsEnd(s, i + 1))

HasTag(s) == \E i \in 1..Len(s) : TagEnd(s, i) # 0
HasUrl(s) == \E i \in 1..Len(s) : UrlEnd(s, i) # 0

C16_StringForEveryInput ==
    \A c \in Calls :
        Cleaned(c) =>
            LET x == frame[c].text
                o == frame[c].options
            IN /\ Returned(c)
               /\ frame[c].outcome.value.t = "str"
               /\ IF x.t = "null" THEN FirstResult(c) = <<>>
                  ELSE IF x.t = "str"
                  THEN IF Blank(x.s) THEN FirstResult(c) = <<>>
                       ELSE FirstResult(c) = ThroughEnabled(10, x.s, o)
                  ELSE IF Lower(PyStrOf(x)) = NanLower THEN FirstResult(c) = <<>>
                  ELSE FirstResult(c) = clean_headline(PyStr(PyStrOf(x)), o)

(***************************************************************************)
(* Calls of the helpers normalize_date, validate_price_dataframe and       *)
(* _is_emoji, each on one argument list.  frame[c] holds the arguments and *)
(* the outcome of the call; there are no tables of a caller.               *)
(***************************************************************************)
\* the calendar days, hours of the day and UTC offsets (in hours) of the
\* date values: midnight, the afternoon, and hours at which the day of UTC
\* differs from the day of a zone east or west of it
DateDays == {19724, 19725}
DateHours == {0, 14, 20, 23}
DateZones == {<<>>, <<-5>>, <<9>>}

DateValues ==
    {Timestamp(d, h, z) : d \in DateDays, h \in DateHours, z \in DateZones}
    \cup {DateText(d, h, z) : d \in DateDays, h \in DateHours, z \in DateZones}
    \cup {Null, NaTText, BadText, PyStr(<<65, 66>>), PyInt(10), PyFloat(15),
          NotATable, PyObject(TrueText)}

ErrorModes == {"coerce", "raise"}

\* the code points next to and at each end of every interval of emoji_ranges,
\* and 'A', '1', ' '
EmojiCodePoints ==
    UNION {{emoji_ranges[k][1] - 1, emoji_ranges[k][1],
            emoji_ranges[k][2], emoji_ranges[k][2] + 1} : k \in DOMAIN emoji_ranges}
    \cup {65, 49, 32}

\* strings of no, one and two characters
EmojiArguments ==
    {<<>>} \cup {<<p>> : p \in EmojiCodePoints}
    \cup {<<p, q>> : p \in {65, 128512}, q \in {66, 128512, 65039}}

\* a price row whose ticker is null
NullTickerRow ==
    PriceRow(DateText(19724, 0, <<>>), Null, PyFloat(1840), PyFloat(1855),
             PyFloat(1830), PyFloat(1850), PyInt(9000))

\* price arguments, and further: a null ticker, alone and after a clean row;
\* rows without columns; other columns without rows; a table lacking its
\* date with a null ticker
ValidateArguments ==
    PriceArguments
    \cup {DataFrame(PriceRequiredColumns, <<NullTickerRow>>),
          DataFrame(PriceRequiredColumns, <<CleanPriceRow, NullTickerRow>>),
          DataFrame(<<>>, << <<>> >>),
          DataFrame(<<"sector">>, <<>>),
          DataFrame(<<"ticker", "open", "high", "low", "close", "volume">>,
                    << Reshape(NullTickerRow,
                               <<"ticker", "open", "high", "low", "close", "volume">>,
                               Null) >>)}

PyBool(b) == [t |-> "bool", b |-> b]

NormalizeDateFrame(date_value, errors) ==
    [pc |-> "normalize_date", date_value |-> date_value, errors |-> errors,
     outcome |-> NoOutcome]

ValidatePriceFrame(df) ==
    [pc |-> "validate_price_dataframe", df |-> df, outcome |-> NoOutcome]

IsEmojiFrame(char) == [pc |-> "_is_emoji", char |-> char, outcome |-> NoOutcome]

HelperInit ==
    /\ heap = <<>>
    /\ price_data = Null /\ news_data = Null
    /\ orig = [price |-> Null, news |-> Null]
    /\ \/ \E date_value \in DateValues, errors \in ErrorModes :
             frame = [c \in {1} |-> NormalizeDateFrame(date_value, errors)]
       \/ \E df \in ValidateArguments :
             frame = [c \in {1} |-> ValidatePriceFrame(df)]
       \/ \E char \in EmojiArguments :
             frame = [c \in {1} |-> IsEmojiFrame(char)]

\* normalize_date(date_value, errors): the Timestamp or NaT it returns, or
\* the ValueError it raises, whose message holds the argument
NormalizeDate(c) ==
    LET f == frame[c]
        r == normalize_date(f.date_value, f.errors)
    IN /\ f.pc = "normalize_date"
       /\ frame' = [frame EXCEPT ![c] =
            [f EXCEPT !.pc = "done",
                      !.outcome =
                          IF r.raised
                          THEN [kind |-> "raised", value |-> f.date_value,
                                error |-> "ValueError: Cannot normalize date"]
                          ELSE [kind |-> "returned", value |-> r.value,
                                error |-> "None"]]]
       /\ UNCHANGED <<heap, price_data, news_data, orig>>

\* validate_price_dataframe(df): the tuple (is_valid, error_msg)
ValidatePriceDataframe(c) ==
    LET f == frame[c]
    IN /\ f.pc = "validate_price_dataframe"
       /\ frame' = [frame EXCEPT ![c] =
            [f EXCEPT !.pc = "done",
                      !.outcome = [kind |-> "returned",
                                   value |-> validate_price_dataframe(f.df),
                                   error |-> "None"]]]
       /\ UNCHANGED <<heap, price_data, news_data, orig>>

\* _is_emoji(char)
IsEmoji(c) ==
    LET f == frame[c]
    IN /\ f.pc = "_is_emoji"
       /\ frame' = [frame EXCEPT ![c] =
            [f EXCEPT !.pc = "done",
                      !.outcome = [kind |-> "returned",
                                   value |-> PyBool(_is_emoji(f.char)),
                                   error |-> "None"]]]
       /\ UNCHANGED <<heap, price_data, news_data, orig>>

HelperNext ==
    \E c \in DOMAIN frame :
        \/ NormalizeDate(c)
        \/ ValidatePriceDataframe(c)
        \/ IsEmoji(c)

HelperSpec == HelperInit /\ [][HelperNext]_vars

\* the call c was a call of normalize_date and is over
Normalized(c) == Done(c) /\ "date_value" \in DOMAIN frame[c]

\* the date value x is a point in time or the text of one
PointInTime(x) == x.t \in {"ts", "datestr"}

(***************************************************************************)
(* C17.  normalize_date of a point in time with a zone offset returns a    *)
(* value without zone, at 00:00, on the calendar day the input shows in    *)
(* its own zone, which is not always the day of the same instant in UTC;   *)
(* of a point in time without zone it returns midnight of the same day.    *)
(***************************************************************************)
C17_OffsetDroppedNotConverted ==
    \A c \in Calls :
        Normalized(c) /\ PointInTime(frame[c].date_value) =>
            /\ Returned(c)
            /\ frame[c].outcome.value =
                   Timestamp(frame[c].date_value.day, 0, <<>>)

\* 2024-01-03 20:00 five hours behind UTC, where it is already 2024-01-04,
\* was normalized to 2024-01-03 00:00 without zone
C17_Witness ==
    \E c \in Calls :
        /\ Normalized(c)
        /\ frame[c].date_value = Timestamp(19725, 20, <<-5>>)
        /\ frame[c].outcome.value = Timestamp(19725, 0, <<>>)

\* the date value x is the null date or a text that stands for it
MissingDate(x) == IsNa(x) \/ x = NaTText

\* the date value x cannot be parsed: it is no point in time, no number that
\* counts from the epoch and not missing
Unparseable(x) == ~MissingDate(x) /\ ~PointInTime(x) /\ ~IsNumber(x)

(***************************************************************************)
(* C18.  normalize_date returns the null date for a null or missing input  *)
(* whatever the error mode is; for a value that cannot be parsed it        *)
(* returns the null date under 'coerce' and raises a ValueError whose      *)
(* message holds the value under 'raise'; under 'coerce' it raises for no  *)
(* input at all.                                                           *)
(***************************************************************************)
C18_ErrorOutcomes ==
    \A c \in Calls :
        Normalized(c) =>
            LET x == frame[c].date_value
                out == frame[c].outcome
            IN /\ MissingDate(x) => Returned(c) /\ out.value = Null
               /\ Unparseable(x) /\ frame[c].errors = "coerce" =>
                      Returned(c) /\ out.value = Null
               /\ Unparseable(x) /\ frame[c].errors = "raise" =>
                      /\ Raised(c)
                      /\ out.error = "ValueError: Cannot normalize date"
                      /\ out.value = x
               /\ frame[c].errors = "coerce" => Returned(c)

\* 'invalid-date' under 'raise' raised the ValueError that names it
C18_Witness ==
    \E c \in Calls :
        /\ Normalized(c)
        /\ frame[c].date_value = BadText /\ frame[c].errors = "raise"
        /\ Raised(c) /\ frame[c].outcome.value = BadText

\* the call c was a call of validate_price_dataframe and is over
Validated(c) == Done(c) /\ "df" \in DOMAIN frame[c]

\* the table df has a row whose cell in column col is null
HasNullIn(df, col) ==
    \E i \in 1..Len(df.rows) : col \in DOMAIN df.rows[i] /\ df.rows[i][col].t = "null"

\* the table df has every column of date, ticker, open, high, low, close, volume
HasAllPriceColumns(df) ==
    {"date", "ticker", "open", "high", "low", "close", "volume"} \subseteq Range(df.columns)

(***************************************************************************)
(* C19.  validate_price_dataframe returns (False, message) for None and    *)
(* for a value that is no DataFrame; (True, None) for every empty table,   *)
(* whatever its columns are; and for a table that is not empty it returns  *)
(* (True, None) exactly when date, ticker, open, high, low, close and      *)
(* volume are all among its columns and no date and no ticker is null,     *)
(* and (False, message) otherwise.  A null in open, high, low, close or    *)
(* volume makes no difference.                                             *)
(***************************************************************************)
C19_PriceValidation ==
    \A c \in Calls :
        Validated(c) =>
            LET df == frame[c].df
                v == frame[c].outcome.value
                Valid == v.is_valid /\ v.error_msg = "None"
                Invalid == ~v.is_valid /\ v.error_msg # "None"
            IN /\ Returned(c)
               /\ Valid \/ Invalid
               /\ df.t # "df" => Invalid
               /\ df.t = "df" /\ (df.rows = <<>> \/ df.columns = <<>>) => Valid
               /\ df.t = "df" /\ df.rows # <<>> /\ df.columns # <<>> =>
                      (Valid <=> /\ HasAllPriceColumns(df)
                                 /\ ~HasNullIn(df, "date")
                                 /\ ~HasNullIn(df, "ticker"))

\* a table with every column, a clean row and a row whose volume is null was
\* found valid
C19_Witness ==
    \E c \in Calls :
        /\ Validated(c)
        /\ frame[c].df = DataFrame(PriceRequiredColumns, <<CleanPriceRow, NullVolumeRow>>)
        /\ frame[c].outcome.value.is_valid

\* the call c was a call of _is_emoji and is over
Classified(c) == Done(c) /\ "char" \in DOMAIN frame[c]

\* the code point p is in an interval of the table, its ends included
InSomeInterval(p) ==
    \E k \in 1..Len(emoji_ranges) : p \in emoji_ranges[k][1]..emoji_ranges[k][2]

(***************************************************************************)
(* C20.  _is_emoji returns True for a string of one character exactly     *)
(* when the code point is in one of the intervals of its table, the first *)
(* and the last code point of an interval included, and False for one     *)
(* outside all of them; for the empty string and for a string of more     *)
(* than one character it returns False.                                   *)
(***************************************************************************)
C20_EmojiIntervals ==
    \A c \in Calls :
        Classified(c) =>
            LET char == frame[c].char
            IN /\ Returned(c)
               /\ Len(char) = 1 =>
                      frame[c].outcome.value = PyBool(InSomeInterval(char[1]))
               /\ Len(char) # 1 => frame[c].outcome.value = PyBool(FALSE)
               /\ \A k \in 1..Len(emoji_ranges) :
                      char \in {<<emoji_ranges[k][1]>>, <<emoji_ranges[k][2]>>} =>
                          frame[c].outcome.value = PyBool(TRUE)

\* U+1F64F, the last code point of the emoticons, was found to be an emoji
C20_Witness ==
    \E c \in Calls :
        /\ Classified(c)
        /\ frame[c].char = <<128591>>
        /\ frame[c].outcome.value = PyBool(TRUE)

(***************************************************************************)
(* clean_and_merge_data as one function of its arguments: the steps above  *)
(* run one after the other with nothing in between.  f holds the options   *)
(* and column names of the call; the result is [kind, error, table].       *)
(***************************************************************************)
Failed(error) == [kind |-> "raised", error |-> error, table |-> Null]

Gave(df) == [kind |-> "returned", error |-> "None", table |-> df]

\* step 8
OutputsValidated(df, f) ==
    IF f.validate_outputs /\ OutputValidationError(df) # "None"
    THEN Failed(OutputValidationError(df)) ELSE Gave(df)

\* step 7
SchemaEnforced(df, f) ==
    IF EnsureTypes(SelectColumns(AddMissingColumns(df, output_columns), output_columns)).raised
    THEN Failed("ValueError: cannot cast")
    ELSE OutputsValidated(
           EnsureTypes(SelectColumns(AddMissingColumns(df, output_columns),
                                     output_columns)).df, f)

\* step 6
MissingFilled(df, f) ==
    IF ~HasColumn(df, "headlines") THEN Failed("KeyError: headlines")
    ELSE IF ~HasColumn(df, "headline_count") THEN Failed("KeyError: headline_count")
    ELSE SchemaEnforced(
           SetColumn(SetColumn(df, "headlines", FilledHeadlines(df)), "headline_count",
                     FilledCounts(SetColumn(df, "headlines", FilledHeadlines(df)))), f)

\* step 3 on a table: the dates normalized and the rows without one dropped
WithNormalizedDates(df, date_column) ==
    FilterRows(SetColumn(df, date_column, NormalizedDates(df, date_column)),
               NotNa(SetColumn(df, date_column, NormalizedDates(df, date_column)),
                     date_column))

\* lines 518-524 on a table: the rows whose cleaned headline is not empty
WithCleanedHeadlines(df, headline_column, clean_options) ==
    FilterRows(SetColumn(df, "cleaned_headline",
                         CleanedHeadlines(df, headline_column, clean_options)),
               NonEmptyHeadline(SetColumn(df, "cleaned_headline",
                         CleanedHeadlines(df, headline_column, clean_options))))

\* lines 526-537: the aggregation by date
Aggregated(df, date_column) ==
    IF DfEmpty(df) THEN EmptyAggregation(date_column) ELSE GroupByAgg(df, date_column)

\* steps 4 and 5
NewsProcessed(price_df, news_df, f) ==
    IF DfEmpty(news_df)
    THEN MissingFilled(MergeLeft(price_df, EmptyAggregation(f.date_column),
                                 f.date_column), f)
    ELSE IF ~HasColumn(news_df, f.date_column) THEN Failed("KeyError: date_column")
    ELSE IF ~HasColumn(news_df, f.headline_column) THEN Failed("KeyError: headline_column")
    ELSE MissingFilled(
           MergeLeft(price_df,
                     Aggregated(WithCleanedHeadlines(
                                    WithNormalizedDates(news_df, f.date_column),
                                    f.headline_column, f.clean_options),
                                f.date_column),
                     f.date_column), f)

\* steps 2 and 3
InputsCopied(price, news, f) ==
    IF news.t # "null" /\ ~IsDataFrame(news) THEN Failed("AttributeError: empty")
    ELSE IF ~HasColumn(price, f.date_column) THEN Failed("KeyError: date_column")
    ELSE NewsProcessed(WithNormalizedDates(price, f.date_column),
                       IF news.t = "null" \/ DfEmpty(news) THEN EmptyFrame ELSE news, f)

\* lines 470-483
EmptyPriceHandled(price, news, f) ==
    IF price.t = "null" \/ (IsDataFrame(price) /\ DfEmpty(price)) THEN Gave(EmptyResult)
    ELSE IF ~IsDataFrame(price) THEN Failed("AttributeError: empty")
    ELSE InputsCopied(price, news, f)

clean_and_merge_data(price_data_, news_data_, f) ==
    IF f.validate_inputs /\ InputValidationError(price_data_, news_data_) # "None"
    THEN Failed(InputValidationError(price_data_, news_data_))
    ELSE EmptyPriceHandled(price_data_, news_data_, f)

\* what call c has come to, as [kind, error, table]
Outcome(c) ==
    [kind |-> frame[c].outcome.kind, error |-> frame[c].outcome.error,
     table |-> IF Returned(c) THEN Result(c) ELSE Null]

\* a call that is over has come to what the function gives for the tables
\* the caller had when the calls began
AsWhenRunAlone(c) ==
    Done(c) => Outcome(c) = clean_and_merge_data(orig.price, orig.news, frame[c])

AllAsWhenRunAlone == \A c \in Calls : AsWhenRunAlone(c)

(***************************************************************************)
(* Two calls of clean_and_merge_data by one caller on the same two         *)
(* tables, each call with options of its own, their steps interleaved in   *)
(* any order: one after the other, or both at once in two threads.         *)
(***************************************************************************)
\* a row with an unparseable date before a clean row
BadDateThenClean ==
    DataFrame(PriceRequiredColumns,
              << PriceRow(BadText, AAPL, PyFloat(1840), PyFloat(1855),
                          PyFloat(1830), PyFloat(1850), PyInt(9000)),
                 CleanPriceRow >>)

\* a row with a null open
NullOpenTable ==
    DataFrame(PriceRequiredColumns,
              << PriceRow(Timestamp(19724, 10, <<>>), AAPL, Null, PyFloat(1865),
                          PyFloat(1845), PyFloat(1860), PyInt(9000)) >>)

SharedPriceArguments ==
    {Null, NotATable, EmptyFrame, BadDateThenClean, NullOpenTable,
     DataFrame(PriceRequiredColumns,
               << CleanPriceRow,
                  PriceRow(Timestamp(19725, 20, <<-5>>), MSFT, PyInt(3700), PyFloat(3725),
                           PyFloat(3690), PyFloat(3701), PyFloat(12005)) >>),
     DataFrame(<<"date", "ticker", "open", "high", "low", "close">>,
               << Reshape(CleanPriceRow,
                          <<"date", "ticker", "open", "high", "low", "close">>, Null) >>),
     DataFrame(PriceRequiredColumns, <<NullDateRow, CleanPriceRow>>)}

SharedNewsArguments ==
    {Null,
     DataFrame(NewsRequiredColumns,
               << CleanNewsRow,
                  NewsRow(Timestamp(19724, 23, <<9>>),
                          PyStr(<<97, 32, 38, 97, 109, 112, 59, 32, 98>>)) >>),
     DataFrame(NewsRequiredColumns,
               << NewsRow(DateText(19724, 0, <<>>), Null), CleanNewsRow,
                  NewsRow(BadText, PyStr(<<85, 112>>)) >>),
     DataFrame(<<"date">>, << Reshape(CleanNewsRow, <<"date">>, Null) >>)}

\* the options of the first call: both validations with either set of clean
\* options, and no validation
FirstCallOptions ==
    {o \in OptionChoices : o.validate_inputs = o.validate_outputs}

TwoCallInit ==
    \E price \in SharedPriceArguments, news \in SharedNewsArguments,
       o1 \in FirstCallOptions, o2 \in OptionChoices :
        /\ ArgumentsAre(price, news)
        /\ frame = [c \in {1, 2} |->
                      IF c = 1
                      THEN NewFrame(o1.validate_inputs, o1.validate_outputs,
                                    o1.clean_options, "date", "headline")
                      ELSE NewFrame(o2.validate_inputs, o2.validate_outputs,
                                    o2.clean_options, "date", "headline")]

TwoCallSpec == TwoCallInit /\ [][Next]_vars

\* the calls c and d were made with the same options and column names
SameOptions(c, d) ==
    /\ frame[c].validate_inputs = frame[d].validate_inputs
    /\ frame[c].validate_outputs = frame[d].validate_outputs
    /\ frame[c].clean_options = frame[d].clean_options
    /\ frame[c].date_column = frame[d].date_column
    /\ frame[c].headline_column = frame[d].headline_column

\* every step of call c that made a table came before every such step of d
RanBefore(c, d) ==
    /\ Returned(c) /\ frame[d].price_df.t = "ref"
    /\ frame[c].outcome.value.id < frame[d].price_df.id

(***************************************************************************)
(* C21.  Two calls of clean_and_merge_data on the same price table and     *)
(* news table with the same options come to the same outcome: both return  *)
(* tables with the same content, or both raise the same error.  This holds *)
(* whether the second call begins after the first is over or before, so    *)
(* nothing a call leaves behind changes what a later call does.            *)
(***************************************************************************)
C21_EqualCallsEqualOutcomes ==
    \A c \in Calls : \A d \in Calls :
        Done(c) /\ Done(d) /\ SameOptions(c, d) => Outcome(c) = Outcome(d)

\* the second call ran after the first was over, on a table with an
\* unparseable date, and both returned the same table of one row
C21_Witness ==
    /\ Calls = {1, 2}
    /\ orig.price = BadDateThenClean
    /\ Done(1) /\ Done(2) /\ SameOptions(1, 2)
    /\ RanBefore(1, 2) /\ Returned(2)
    /\ Len(Result(1).rows) = 1
    /\ Result(1) = Result(2)

(***************************************************************************)
(* C22.  When two calls of clean_and_merge_data on the caller's same two   *)
(* tables run with their steps interleaved in any order, each call comes   *)
(* to the outcome it comes to when it runs alone, and the caller's tables  *)
(* are at every moment what they were before the calls.  The compiled      *)
(* patterns are constants no step assigns.                                 *)
(***************************************************************************)
C22_InterleavedCallsAsAlone ==
    /\ \A c \in Calls : AsWhenRunAlone(c)
    /\ Deref(heap, price_data) = orig.price
    /\ Deref(heap, news_data) = orig.news

\* both calls returned a table with rows, and each made its working copies
\* before the other made its result
C22_Witness ==
    /\ Calls = {1, 2}
    /\ Done(1) /\ Done(2) /\ Returned(1) /\ Returned(2)
    /\ frame[1].price_df.t = "ref" /\ frame[2].price_df.t = "ref"
    /\ frame[1].price_df.id < frame[2].outcome.value.id
    /\ frame[2].price_df.id < frame[1].outcome.value.id
    /\ Len(Result(1).rows) = 2
    /\ Len(Result(1).rows[1]["headlines"].items) = 2

Renamed(df, from, to) ==
    IF ~IsDataFrame(df) \/ from = to \/ ~HasColumn(df, from) THEN df
    ELSE DataFrame([i \in DOMAIN df.columns |->
                       IF df.columns[i] = from THEN to ELSE df.columns[i]],
                   [i \in DOMAIN df.rows |->
                       [k \in (Range(df.columns) \ {from}) \cup {to} |->
                           df.rows[i][IF k = to THEN from ELSE k]]])

DateColumnNames == {"date", "trade_date"}
HeadlineColumnNames == {"headline", "title"}

ColumnInit ==
    \E price \in SharedPriceArguments, news \in SharedNewsArguments,
       o \in OptionChoices, dc \in DateColumnNames, hc \in HeadlineColumnNames :
        /\ ArgumentsAre(Renamed(price, "date", dc),
                        Renamed(Renamed(news, "date", dc), "headline", hc))
        /\ frame = [c \in {1} |->
                      NewFrame(o.validate_inputs, o.validate_outputs, o.clean_options,
                               dc, hc)]

ColumnSpec == ColumnInit /\ [][Next]_vars

\* what the default call gives on the caller's tables with the columns of
\* call c named date and headline
DefaultCallOnRenamed(c) ==
    clean_and_merge_data(
        Renamed(orig.price, frame[c].date_column, "date"),
        Renamed(Renamed(orig.news, frame[c].date_column, "date"),
                frame[c].headline_column, "headline"),
        [frame[c] EXCEPT !.date_column = "date", !.headline_column = "headline"])

(***************************************************************************)
(* C27.  A call with date_column = c and headline_column = h on tables     *)
(* that hold the date in column c and the headline in column h comes to    *)
(* what the default call comes to on the same tables with these columns    *)
(* named date and headline: the same rows or the same error.  With c other *)
(* than 'date' the call fails input validation, which asks for a column    *)
(* named 'date', and without input validation it returns every date null,  *)
(* line 575 reading the column 'date': the code does not do what is stated *)
(* here.                                                                   *)
(***************************************************************************)
C27_ColumnNamesHonoured ==
    \A c \in Calls : Done(c) => Outcome(c) = DefaultCallOnRenamed(c)

\* the news rows of day d whose cleaned headline is not empty, whatever
\* ticker they name
NewsRowsOfDay(d, clean_options) ==
    SelectSeq(NewsRows,
              LAMBDA r : /\ DayOf(r["date"]) = <<d>>
                         /\ clean_headline(r["headline"], clean_options) # <<>>)

(***************************************************************************)
(* C28.  News rows are matched to price rows by normalized date alone.  A  *)
(* returned row of day d has one headline for every news row of day d      *)
(* with a non-empty cleaned headline, whatever the ticker column of the    *)
(* news table and the ticker of the price row say; two returned rows of    *)
(* the same day, of different tickers or not, have the same headlines.     *)
(***************************************************************************)
C28_MatchedByDateOnly ==
    \A c \in Calls :
        Done(c) /\ Returned(c) =>
            \A i \in 1..Len(Result(c).rows) :
                LET row == Result(c).rows[i]
                IN row["date"].t = "ts" =>
                    /\ \A j \in 1..Len(Result(c).rows) :
                           Result(c).rows[j]["date"] = row["date"] =>
                               Result(c).rows[j]["headlines"] = row["headlines"]
                    /\ LET news == NewsRowsOfDay(row["date"].day, frame[c].clean_options)
                       IN /\ Len(row["headlines"].items) = Len(news)
                          /\ \A k \in 1..Len(news) :
                                 row["headlines"].items[k] =
                                     PyStr(clean_headline(news[k]["headline"],
                                                          frame[c].clean_options))

\* the AAPL row and the MSFT row of the first day both came back with 'Up',
\* which the news names AAPL for, and 'a & b', which it names MSFT for
C28_Witness ==
    \E c \in Calls :
        /\ Done(c) /\ Returned(c)
        /\ orig.price = MultiTickerPrice /\ orig.news = TickerNews
        /\ Len(Result(c).rows) = 2
        /\ Result(c).rows[1]["ticker"] = AAPL /\ Result(c).rows[2]["ticker"] = MSFT
        /\ Result(c).rows[1]["headlines"] = PyList(<<Up, AAndB>>)
        /\ Result(c).rows[2]["headlines"] = PyList(<<Up, AAndB>>)

\* s has a '<', then one or more characters other than '>', then a '>'
ContainsTag(s) ==
    \E i \in 1..Len(s) : \E j \in (i + 2)..Len(s) :
        /\ s[i] = 60 /\ s[j] = 62
        /\ \A k \in (i + 1)..(j - 1) : s[k] # 62

\* with its tags stripped, s still yields a tag when its character references
\* are unescaped and its compatibility characters decomposed
YieldsTagWhenDecoded(s) == ContainsTag(NFKD(html_unescape(HTML_TAG_PATTERN_sub(s))))

(***************************************************************************)
(* C29.  With default options the string clean_headline returns contains   *)
(* no HTML tag, whatever the input is, a tag written with character        *)
(* references included.                                                    *)
(***************************************************************************)
C29_NoTagInOutput ==
    \A c \in Calls :
        DefaultClean(c) /\ Cleaned(c) => ~ContainsTag(FirstResult(c))

(***************************************************************************)
(* C29, amended.  With default options the string clean_headline returns   *)
(* for a text contains no tag that the text holds literally: it contains a *)
(* tag only when the text, its literal tags stripped, yields one by        *)
(* unescaping character references such as &lt; and &gt; or by decomposing *)
(* compatibility characters such as the fullwidth signs, both of which     *)
(* happen after the tags are stripped.                                     *)
(***************************************************************************)
C29_NoLiteralTagInOutput ==
    \A c \in Calls :
        DefaultClean(c) /\ Cleaned(c) /\ frame[c].text.t = "str" =>
            (ContainsTag(FirstResult(c)) => YieldsTagWhenDecoded(frame[c].text.s))

\* '<b>AB<b>' was cleaned to 'AB'
C29_Witness ==
    \E c \in Calls :
        /\ DefaultClean(c) /\ Cleaned(c)
        /\ frame[c].text = PyStr(<<60, 98, 62, 65, 66, 60, 98, 62>>)
        /\ FirstResult(c) = <<65, 66>>

\* clean_headlines_batch with the empty results left in
CleanHeadlinesBatchKeepingEmpty(headlines, clean_options) ==
    [i \in DOMAIN headlines |-> PyStr(clean_headline(headlines[i], clean_options))]

\* for headline in headlines: result = clean_headline(headline, **clean_options);
\* if result: cleaned.append(result)
RECURSIVE clean_headlines_batch(_, _)
clean_headlines_batch(headlines, clean_options) ==
    IF headlines = <<>> THEN <<>>
    ELSE LET result == clean_headline(Head(headlines), clean_options)
         IN (IF result # <<>> THEN <<PyStr(result)>> ELSE <<>>)
                \o clean_headlines_batch(Tail(headlines), clean_options)

\* the raw headlines of the news rows whose date normalizes to day d, in row
\* order
RawHeadlinesOfDay(d) ==
    LET onDay == SelectSeq(NewsRows, LAMBDA r : DayOf(r["date"]) = <<d>>)
    IN [i \in DOMAIN onDay |-> onDay[i]["headline"]]

\* the places of headlines whose cleaned value is not empty
KeptPlaces(headlines, clean_options) ==
    {i \in DOMAIN headlines : clean_headline(headlines[i], clean_options) # <<>>}

\* batch is the cleaned value of each headline, in the order of the
\* headlines, with every empty one removed
IsCleanedInOrder(batch, headlines, clean_options) ==
    /\ Len(batch) = Cardinality(KeptPlaces(headlines, clean_options))
    /\ \A i \in KeptPlaces(headlines, clean_options) :
           batch[Cardinality({j \in KeptPlaces(headlines, clean_options) : j <= i})] =
               PyStr(clean_headline(headlines[i], clean_options))

(***************************************************************************)
(* C30.  The merge and the batch cleaner agree.  The headlines of a        *)
(* returned row of day d are what clean_headlines_batch gives, with the    *)
(* clean options of the call, for the raw headlines of the news rows whose *)
(* date normalizes to d, taken in row order; and what it gives is the      *)
(* cleaned value of each of them, in their order, with every empty result  *)
(* removed.                                                                *)
(***************************************************************************)
C30_MergeAgreesWithBatch ==
    \A c \in Calls :
        Done(c) /\ Returned(c) =>
            \A i \in 1..Len(Result(c).rows) :
                LET row == Result(c).rows[i]
                IN row["date"].t = "ts" =>
                    /\ row["headlines"].items =
                           clean_headlines_batch(RawHeadlinesOfDay(row["date"].day),
                                                 frame[c].clean_options)
                    /\ IsCleanedInOrder(row["headlines"].items,
                                        RawHeadlinesOfDay(row["date"].day),
                                        frame[c].clean_options)

\* a returned row has headlines, fewer than its day has news rows, and they
\* are what the batch cleaner gives
C30_Witness ==
    \E c \in Calls :
        /\ Done(c) /\ Returned(c)
        /\ \E i \in 1..Len(Result(c).rows) :
               LET row == Result(c).rows[i]
               IN /\ row["date"].t = "ts"
                  /\ Len(row["headlines"].items) >= 1
                  /\ Len(row["headlines"].items) < Len(RawHeadlinesOfDay(row["date"].day))
                  /\ row["headlines"].items =
                         clean_headlines_batch(RawHeadlinesOfDay(row["date"].day),
                                               frame[c].clean_options)

(***************************************************************************)
(* The upstream fetchers.  fetch_price_data runs six steps on a ticker and *)
(* a number of days; what the price provider answers is outside the        *)
(* program and is any of a few tables.  A frame holds the locals of one    *)
(* call, tables by value.                                                  *)
(***************************************************************************)
VALID_TICKERS ==
    {AAPL, MSFT, PyStr(<<71, 79, 79, 71, 76>>), PyStr(<<65, 77, 90, 78>>),
     PyStr(<<78, 86, 68, 65>>), PyStr(<<84, 83, 76, 65>>), PyStr(<<77, 69, 84, 65>>)}

MIN_DAYS == 1
MAX_DAYS == 10

\* the error validate_inputs raises, or "None"; days is a PyInt of so many
\* tenths, or a value of another type
validate_inputs(ticker, days) ==
    IF ticker \notin VALID_TICKERS THEN "ValueError: Invalid ticker"
    ELSE IF days.t # "int" THEN "ValueError: Days must be an integer"
    ELSE IF days.v < MIN_DAYS * 10 \/ days.v > MAX_DAYS * 10
         THEN "ValueError: Days must be between"
    ELSE "None"

\* int(days * 1.5), days a whole number of tenths
DaysTimesOneAndAHalf(days) == ((days.v \div 10) * 15) \div 10

\* calculate_date_range with the spans of twice the days
CalculateDateRangeDoubled(days, today) ==
    [start_date |-> today - 2 * (days.v \div 10), end_date |-> today]

\* end_date = today.normalize(); start_date = end_date - Timedelta(int(days * 1.5))
calculate_date_range(days, today) ==
    [start_date |-> today - DaysTimesOneAndAHalf(days), end_date |-> today]

\* Monday is 0, Sunday is 6 (day 19724 of the epoch, 2024-01-02, is a Tuesday)
DayOfWeek(day) == (day + 3) % 7

\* the days the exchange is closed on though they are weekdays: Good Friday
\* 2024-03-29
ExchangeHolidays == {19811}

\* nyse.valid_days: the days of the exchange calendar
IsValidDay(day) == DayOfWeek(day) <= 4 /\ day \notin ExchangeHolidays

PriceBarColumns == <<"Date", "Open", "High", "Low", "Close", "Adj Close", "Volume">>

\* one daily bar as the provider gives it
PriceBar(day, open, high) ==
    [k \in Range(PriceBarColumns) |->
        CASE k = "Date" -> Timestamp(day, 0, <<>>)
          [] k = "Open" -> open
          [] k = "High" -> high
          [] k = "Low" -> PyFloat(1845)
          [] k = "Close" -> PyFloat(1860)
          [] k = "Adj Close" -> PyFloat(1858)
          [] k = "Volume" -> PyInt(90000)]

\* the days start_date .. end_date - 1 in ascending order
DaysOfRange(start_date, end_date) ==
    [i \in 1..(end_date - start_date) |-> start_date + i - 1]

WeekdaysOfRange(start_date, end_date) ==
    SelectSeq(DaysOfRange(start_date, end_date), LAMBDA d : DayOfWeek(d) <= 4)

\* a table of bars, one for each of days; the last bar has the given open
\* and high
BarsOf(days, open, high) ==
    DataFrame(PriceBarColumns,
              [i \in DOMAIN days |->
                  IF i = Len(days) THEN PriceBar(days[i], open, high)
                  ELSE PriceBar(days[i], PyFloat(1850), PyFloat(1865))])

\* what yf.download may answer for start_date <= day < end_date: one bar
\* for each weekday, one for each trading day, one for each calendar day,
\* no bar at all, and bars with a null in High or in Open
ProviderAnswers(start_date, end_date) ==
    {BarsOf(WeekdaysOfRange(start_date, end_date), PyFloat(1850), PyFloat(1865)),
     BarsOf(SelectSeq(DaysOfRange(start_date, end_date), IsValidDay),
            PyFloat(1850), PyFloat(1865)),
     BarsOf(DaysOfRange(start_date, end_date), PyFloat(1850), PyFloat(1865)),
     BarsOf(<<>>, PyFloat(1850), PyFloat(1865)),
     BarsOf(WeekdaysOfRange(start_date, end_date), PyFloat(1850), Null),
     BarsOf(WeekdaysOfRange(start_date, end_date), Null, PyFloat(1865))}

\* df[mask] for mask = the rows whose Date is a day of the exchange calendar
filter_to_market_data_only(df) ==
    DataFrame(df.columns, SelectSeq(df.rows, LAMBDA r : IsValidDay(r["Date"].day)))

\* df.tail(num_of_days)
trim_to_exact_num_of_days(df, num_of_days) ==
    DataFrame(df.columns,
              IF Len(df.rows) <= num_of_days THEN df.rows
              ELSE SubSeq(df.rows, Len(df.rows) - num_of_days + 1, Len(df.rows)))

\* dates.is_monotonic_increasing
IsMonotonicIncreasing(cells) ==
    \A i \in 1..(Len(cells) - 1) : cells[i].day <= cells[i + 1].day

\* the error clean_and_validate_output raises, or "None"
clean_and_validate_output(df, num_of_days) ==
    IF \E col \in {"Date", "Open", "Close", "Volume"} : ~HasColumn(df, col)
        THEN "ValueError: Missing required column"
    ELSE IF \E col \in {"Open", "Close", "Volume", "Date"} : AnyNa(df, col)
        THEN "ValueError: Output data contains null values"
    ELSE IF \E col \in {"Open", "Close", "Volume"} :
                \E i \in DOMAIN df.rows : df.rows[i][col].v < 0
        THEN "ValueError: Output data contains negative values"
    ELSE IF ~IsMonotonicIncreasing(Column(df, "Date"))
        THEN "ValueError: Output data is not sorted by date in ascending order"
    ELSE IF \E i \in DOMAIN df.rows : DayOfWeek(df.rows[i]["Date"].day) > 4
        THEN "ValueError: Output data contains weekend dates"
    ELSE IF Len(df.rows) # num_of_days
        THEN "ValueError: Output data has rows, expected num_of_days"
    ELSE "None"

FetchPriceFrame(ticker, days, today) ==
    [pc |-> "fetch_validate_inputs", ticker |-> ticker, days |-> days,
     today |-> today, start_date |-> 0, end_date |-> 0, df |-> Null,
     outcome |-> NoOutcome]

\* the call c ends raising error
RaisedIn(f, error) ==
    [f EXCEPT !.pc = "done",
              !.outcome = [kind |-> "raised", value |-> Null, error |-> error]]

FetchValidateInputs(c) ==
    LET f == frame[c]
        error == validate_inputs(f.ticker, f.days)
    IN /\ f.pc = "fetch_validate_inputs"
       /\ frame' = [frame EXCEPT ![c] =
            IF error # "None" THEN RaisedIn(f, error)
            ELSE [f EXCEPT !.pc = "calculate_date_range"]]
       /\ UNCHANGED <<heap, price_data, news_data, orig>>

CalculateDateRange(c) ==
    LET f == frame[c]
        range == calculate_date_range(f.days, f.today)
    IN /\ f.pc = "calculate_date_range"
       /\ frame' = [frame EXCEPT ![c] =
            [f EXCEPT !.pc = "fetch_raw_price_data",
                      !.start_date = range.start_date,
                      !.end_date = range.end_date]]
       /\ UNCHANGED <<heap, price_data, news_data, orig>>

FetchRawPriceData(c) ==
    LET f == frame[c]
    IN /\ f.pc = "fetch_raw_price_data"
       /\ \E data \in ProviderAnswers(f.start_date, f.end_date) :
            frame' = [frame EXCEPT ![c] =
                IF DfEmpty(data) THEN RaisedIn(f, "ValueError: No data returned")
                ELSE [f EXCEPT !.pc = "filter_to_market_data_only", !.df = data]]
       /\ UNCHANGED <<heap, price_data, news_data, orig>>

FilterToMarketDataOnly(c) ==
    LET f == frame[c]
    IN /\ f.pc = "filter_to_market_data_only"
       /\ frame' = [frame EXCEPT ![c] =
            [f EXCEPT !.pc = "trim_to_exact_num_of_days",
                      !.df = filter_to_market_data_only(f.df)]]
       /\ UNCHANGED <<heap, price_data, news_data, orig>>

TrimToExactNumOfDays(c) ==
    LET f == frame[c]
    IN /\ f.pc = "trim_to_exact_num_of_days"
       /\ frame' = [frame EXCEPT ![c] =
            [f EXCEPT !.pc = "clean_and_validate_output",
                      !.df = trim_to_exact_num_of_days(f.df, f.days.v \div 10)]]
       /\ UNCHANGED <<heap, price_data, news_data, orig>>

\* the last step of fetch_price_data, and its return
CleanAndValidateOutput(c) ==
    LET f == frame[c]
        error == clean_and_validate_output(f.df, f.days.v \div 10)
    IN /\ f.pc = "clean_and_validate_output"
       /\ frame' = [frame EXCEPT ![c] =
            IF error # "None" THEN RaisedIn(f, error)
            ELSE [f EXCEPT !.pc = "done",
                           !.outcome = [kind |-> "returned", value |-> f.df,
                                        error |-> "None"]]]
       /\ UNCHANGED <<heap, price_data, news_data, orig>>

(***************************************************************************)
(* fetch_news_headlines.  The feed is outside the program: a parse that    *)
(* failed, or a list of entries, each with a publication time (or none)    *)
(* and a title.                                                            *)
(***************************************************************************)
MaxEntries == 3

MAGNIFICENT_SEVEN == VALID_TICKERS

ToUpperChar(c) == IF c \in 97..122 THEN c - 32 ELSE c

\* str.upper()
Upper(s) == [i \in DOMAIN s |-> ToUpperChar(s[i])]

\* the hours from the epoch to a point in time
HoursOf(ts) == ts.day * 24 + ts.hour

\* the number a days argument that is an int stands for (True is the int 1)
DaysAsInt(days) == IF days.t = "bool" THEN (IF days.b THEN 1 ELSE 0) ELSE days.v \div 10

FeedEntry(published, title, source) ==
    [published |-> published, title |-> title, source |-> source]

NewsColumns == <<"date", "ticker", "headline", "source">>

\* _empty_dataframe()
empty_dataframe == DataFrame(NewsColumns, <<>>)

\* the loop over feed.entries: [error, rows], rows the dicts appended to
\* headlines_data.  Comparing a zoned publication time with the zone-naive
\* cutoff raises TypeError.
RECURSIVE ExtractHeadlines(_, _, _)
ExtractHeadlines(entries, ticker_upper, cutoff_hours) ==
    IF entries = <<>> THEN [error |-> "None", rows |-> <<>>]
    ELSE LET entry == Head(entries)
             pub_date == entry.published
             headline == Strip(entry.title)
             rest == ExtractHeadlines(Tail(entries), ticker_upper, cutoff_hours)
         IN IF IsNa(pub_date) THEN rest
            ELSE IF pub_date.tz # <<>>
                 THEN [error |-> "TypeError: can't compare offset-naive and offset-aware datetimes",
                       rows |-> <<>>]
            ELSE IF HoursOf(pub_date) < cutoff_hours THEN rest
            ELSE IF headline = <<>> THEN rest
            ELSE IF rest.error # "None" THEN rest
            ELSE [error |-> "None",
                  rows |-> <<[k \in Range(NewsColumns) |->
                                CASE k = "date" -> pub_date
                                  [] k = "ticker" -> ticker_upper
                                  [] k = "headline" -> PyStr(headline)
                                  [] k = "source" -> entry.source]>> \o rest.rows]

\* drop_duplicates on the headline alone
DropDuplicatesByHeadline(rows) ==
    Mask(rows, [i \in DOMAIN rows |->
                   \A j \in 1..(i - 1) : rows[j]["headline"] # rows[i]["headline"]])

\* df.drop_duplicates(subset=['headline', 'date']): the first row of every
\* (headline, date) pair
drop_duplicates(rows) ==
    Mask(rows, [i \in DOMAIN rows |->
                   \A j \in 1..(i - 1) :
                       \/ rows[j]["headline"] # rows[i]["headline"]
                       \/ rows[j]["date"] # rows[i]["date"]])

\* df.sort_values('date', ascending=False): every order of the rows with the
\* dates descending; the default sort is not stable, rows of equal date
\* come in any order
sort_values_descending(rows) ==
    {[i \in DOMAIN rows |-> rows[p[i]]] : p \in
        {q \in Permutations(DOMAIN rows) :
            \A i \in DOMAIN rows : \A j \in DOMAIN rows :
                i < j => HoursOf(rows[q[i]]["date"]) >= HoursOf(rows[q[j]]["date"])}}

\* the outcomes of fetch_news_headlines(ticker, days) at the time now for a
\* feed
fetch_news_headlines(ticker, days, now, feed) ==
    IF ticker.t # "str" THEN {Failed("ValueError: ticker must be a string")}
    ELSE IF PyStr(Strip(Upper(ticker.s))) \notin MAGNIFICENT_SEVEN
        THEN {Failed("ValueError: Invalid ticker")}
    ELSE IF days.t \notin {"int", "bool"} THEN {Failed("ValueError: days must be an integer")}
    ELSE IF ~(1 <= DaysAsInt(days) /\ DaysAsInt(days) <= 10)
        THEN {Failed("ValueError: days must be between 1 and 10")}
    ELSE IF feed.failed THEN {Gave(empty_dataframe)}
    ELSE LET data == ExtractHeadlines(feed.entries, PyStr(Strip(Upper(ticker.s))),
                                      HoursOf(now) - 24 * DaysAsInt(days))
         IN IF data.error # "None" THEN {Failed(data.error)}
            ELSE IF data.rows = <<>> THEN {Gave(empty_dataframe)}
            ELSE {Gave(DataFrame(NewsColumns, rows)) :
                      rows \in sort_values_descending(drop_duplicates(data.rows))}

FetchNewsFrame(ticker, days, now, feed) ==
    [pc |-> "fetch_news_headlines", ticker |-> ticker, days |-> days, now |-> now,
     feed |-> feed, outcome |-> NoOutcome]

FetchNewsHeadlines(c) ==
    LET f == frame[c]
    IN /\ f.pc = "fetch_news_headlines"
       /\ \E out \in fetch_news_headlines(f.ticker, f.days, f.now, f.feed) :
            frame' = [frame EXCEPT ![c] =
                [f EXCEPT !.pc = "done",
                          !.outcome = [kind |-> out.kind, value |-> out.table,
                                       error |-> out.error]]]
       /\ UNCHANGED <<heap, price_data, news_data, orig>>

(***************************************************************************)
(* The specification of the fetchers: one call of fetch_price_data or of   *)
(* fetch_news_headlines.  The price calls are made on each day of two      *)
(* weeks, 2024-04-01 .. 04-07 (the Monday after Good Friday to Sunday) and *)
(* 2024-04-22 .. 04-28, with every number of days from 0 to 11 and some    *)
(* values that are no numbers of days.                                     *)
(***************************************************************************)
FetchTickers == {AAPL, PyStr(<<32, 97, 97, 112, 108>>), PyStr(<<88, 89, 90>>), PyInt(10)}

FetchPriceDays == {PyInt(10 * n) : n \in 0..11} \cup {PyFloat(25), PyBool(TRUE)}

FetchTodays == 19814..19820 \cup 19835..19841

\* the time of the news calls: noon of 2024-04-22
FetchNow == Timestamp(19835, 12, <<>>)

Reuters == PyStr(<<82>>)
Bloomberg == PyStr(<<66>>)

\* 'Up' this morning; ' Up ' at the same time from another source; 'Up'
\* yesterday; 'Up' an hour later; 'a & b' this morning; 'Up' with no
\* publication time; 'Up' five days ago; a blank title; 'Up' with a zoned
\* publication time
FeedEntryChoices ==
    {FeedEntry(Timestamp(19835, 9, <<>>), <<85, 112>>, Reuters),
     FeedEntry(Timestamp(19835, 9, <<>>), <<32, 85, 112, 32>>, Bloomberg),
     FeedEntry(Timestamp(19834, 9, <<>>), <<85, 112>>, Reuters),
     FeedEntry(Timestamp(19835, 10, <<>>), <<85, 112>>, Reuters),
     FeedEntry(Timestamp(19835, 9, <<>>), <<97, 32, 38, 32, 98>>, Reuters),
     FeedEntry(Null, <<85, 112>>, Reuters),
     FeedEntry(Timestamp(19830, 9, <<>>), <<85, 112>>, Reuters),
     FeedEntry(Timestamp(19835, 9, <<>>), <<32, 32>>, Reuters),
     FeedEntry(Timestamp(19835, 9, <<-5>>), <<85, 112>>, Reuters)}

Feeds ==
    {[failed |-> TRUE, entries |-> <<>>]}
    \cup {[failed |-> FALSE, entries |-> es] :
            es \in UNION {[1..n -> FeedEntryChoices] : n \in 0..MaxEntries}}

\* a feed for the calls whose arguments are refused
OneEntryFeed ==
    [failed |-> FALSE,
     entries |-> <<FeedEntry(Timestamp(19835, 9, <<>>), <<85, 112>>, Reuters)>>]

FetchInit ==
    /\ heap = <<>>
    /\ price_data = Null /\ news_data = Null
    /\ orig = [price |-> Null, news |-> Null]
    /\ \/ \E ticker \in FetchTickers, days \in FetchPriceDays, today \in FetchTodays :
             frame = [c \in {1} |-> FetchPriceFrame(ticker, days, today)]
       \/ \E ticker \in {AAPL, PyStr(<<32, 97, 97, 112, 108>>)},
             days \in {PyInt(20), PyInt(100), PyBool(TRUE)}, feed \in Feeds :
             frame = [c \in {1} |-> FetchNewsFrame(ticker, days, FetchNow, feed)]
       \/ \E ticker \in FetchTickers, days \in {PyInt(0), PyInt(110), PyFloat(25), PyInt(100)} :
             frame = [c \in {1} |-> FetchNewsFrame(ticker, days, FetchNow, OneEntryFeed)]

FetchNext ==
    \E c \in DOMAIN frame :
        \/ FetchValidateInputs(c)
        \/ CalculateDateRange(c)
        \/ FetchRawPriceData(c)
        \/ FilterToMarketDataOnly(c)
        \/ TrimToExactNumOfDays(c)
        \/ CleanAndValidateOutput(c)
        \/ FetchNewsHeadlines(c)

FetchSpec == FetchInit /\ [][FetchNext]_vars

\* the call c was a call of fetch_price_data
PriceFetch(c) == "today" \in DOMAIN frame[c]

\* the call c was a call of fetch_news_headlines
NewsFetch(c) == "feed" \in DOMAIN frame[c]

\* the table a fetcher returned
Fetched(c) == frame[c].outcome.value

(***************************************************************************)
(* C24.  Every table fetch_price_data returns has the columns date,        *)
(* ticker, open, high, low, close, volume, so that it passes               *)
(* validate_price_dataframe, is sorted ascending by date, and has no null  *)
(* and no weekend date.                                                    *)
(***************************************************************************)
C24_PriceContract ==
    \A c \in Calls :
        PriceFetch(c) /\ Done(c) /\ Returned(c) =>
            /\ \A col \in {"date", "ticker", "open", "high", "low", "close", "volume"} :
                   HasColumn(Fetched(c), col)
            /\ validate_price_dataframe(Fetched(c)).is_valid
            /\ IsMonotonicIncreasing(Column(Fetched(c), "Date"))
            /\ \A col \in Range(Fetched(c).columns) : ~AnyNa(Fetched(c), col)
            /\ \A i \in DOMAIN Fetched(c).rows :
                   DayOfWeek(Fetched(c).rows[i]["Date"].day) <= 4

(***************************************************************************)
(* C26.  calculate_date_range fetches enough: for every days in 1..10 and  *)
(* every weekday the call is made on, the range it returns holds at least  *)
(* days weekdays, which fetch_price_data needs to return days rows when    *)
(* the provider gives one bar for each weekday of the range.               *)
(***************************************************************************)
C26_RangeHoldsEnoughWeekdays ==
    \A c \in Calls :
        /\ PriceFetch(c) /\ DayOfWeek(frame[c].today) <= 4
        /\ frame[c].pc = "fetch_raw_price_data"
        => Len(WeekdaysOfRange(frame[c].start_date, frame[c].end_date))
               >= frame[c].days.v \div 10

\* the rows the loop of the call c took from its feed
Extracted(c) ==
    ExtractHeadlines(frame[c].feed.entries, PyStr(Strip(Upper(frame[c].ticker.s))),
                     HoursOf(frame[c].now) - 24 * DaysAsInt(frame[c].days)).rows

\* the places of rows that hold the headline and the date of r
PlacesOfPair(rows, r) ==
    {i \in DOMAIN rows : rows[i]["headline"] = r["headline"] /\ rows[i]["date"] = r["date"]}

(***************************************************************************)
(* C25.  A table fetch_news_headlines returns has no two rows with the     *)
(* same headline and date, and its dates descend.  Of the entries of the   *)
(* feed that hold one (headline, date) pair, once or more often, exactly   *)
(* one row is kept, and every row kept is the first entry of its pair.     *)
(***************************************************************************)
C25_DeduplicatedAndDescending ==
    \A c \in Calls :
        NewsFetch(c) /\ Done(c) /\ Returned(c) =>
            LET rows == Fetched(c).rows
            IN /\ \A i \in DOMAIN rows : PlacesOfPair(rows, rows[i]) = {i}
               /\ \A i \in DOMAIN rows : \A j \in DOMAIN rows :
                      i < j => HoursOf(rows[i]["date"]) >= HoursOf(rows[j]["date"])
               /\ ~frame[c].feed.failed =>
                      /\ \A k \in DOMAIN Extracted(c) :
                             Cardinality(PlacesOfPair(rows, Extracted(c)[k])) = 1
                      /\ \A i \in DOMAIN rows :
                             \E k \in DOMAIN Extracted(c) :
                                 /\ rows[i] = Extracted(c)[k]
                                 /\ \A m \in PlacesOfPair(Extracted(c), rows[i]) : k <= m

\* a feed that had 'Up' of this morning twice, the second time with spaces
\* around it and from another source, and 'Up' of yesterday before them,
\* came back as two rows: this morning's from the first source, then
\* yesterday's
C25_Witness ==
    \E c \in Calls :
        /\ NewsFetch(c) /\ Done(c) /\ Returned(c)
        /\ Len(frame[c].feed.entries) = 3
        /\ Len(Extracted(c)) = 3
        /\ Len(Fetched(c).rows) = 2
        /\ Fetched(c).rows[1]["date"] = Timestamp(19835, 9, <<>>)
        /\ Fetched(c).rows[1]["source"] = Reuters
        /\ Fetched(c).rows[2]["date"] = Timestamp(19834, 9, <<>>)
        /\ Fetched(c).rows[1]["headline"] = Fetched(c).rows[2]["headline"]

=============================================================================
